---- MODULE Spec2Model ----
(***************************************************************************)
(* A model of the translation layer of things-dxt: the input validators    *)
(* (ThingsValidator), the parameter mapper (ParameterMapper), the script   *)
(* executor wrapper (ThingsExtension.executeJXA / executeThingsJXA), the   *)
(* tool handlers (ToolHandlers) and the request dispatcher.                *)
(*                                                                         *)
(* JavaScript values are records [t, v]: t is the run-time type tag and v  *)
(* the payload.  A JavaScript string is a sequence of one-character        *)
(* strings, so that length, trimming and regular-expression matching are   *)
(* computed character by character; a text nothing examines character by  *)
(* character (a message, a script's output) is kept in longer pieces.  A   *)
(* thrown exception is a record [t |-> "throw", ...], a returned value a   *)
(* record [t |-> "return", v |-> value].                                   *)
(***************************************************************************)
EXTENDS Integers, Sequences, FiniteSets, TLC

VARIABLES
  input,             \* validator specifications: the value handed to the validator
  maxLengthArg,      \* validator specifications: the maxLength argument of validateStringInput
  validated,         \* validator specifications: what the validator returned or threw
  args,              \* mapper specification: the caller's raw arguments
  additionalFields,  \* mapper specification: the operation-specific extras
  mapped,            \* mapper specification: validateAndMapParameters(args, additionalFields)
  remapped,          \* mapper specification: validateAndMapParameters(mapped)
  pc,                \* where the call stands: before, at or after each await
  request,           \* the call: a tool request, or the arguments of executeJXA
  things,            \* the target application: whether it runs, and its items
  locals,            \* the handler's local variables, kept across the await
  executed,          \* the commands handed to execAsync, in order
  outcome            \* what the call returned or threw

validatorVars == <<input, maxLengthArg, validated>>
mapperVars    == <<args, additionalFields, mapped, remapped>>
callVars      == <<pc, request, things, locals, executed, outcome>>

vars == <<input, maxLengthArg, validated, args, additionalFields, mapped, remapped,
          pc, request, things, locals, executed, outcome>>

-----------------------------------------------------------------------------
(* JavaScript values *)

Undefined == [t |-> "undefined", v |-> 0]
Null      == [t |-> "null", v |-> 0]
Str(s)    == [t |-> "string", v |-> s]
Num(n)    == [t |-> "number", v |-> n]
Bool(b)   == [t |-> "boolean", v |-> b]
Arr(a)    == [t |-> "array", v |-> a]
Obj(f)    == [t |-> "object", v |-> f]
EmptyObject == Obj(<< >>)

\* Not yet computed (a model marker, never a JavaScript value).
Pending == [t |-> "pending", v |-> 0]

\* typeof x
TypeOf(x) == IF x.t \in {"null", "array"} THEN "object" ELSE x.t

\* ToBoolean(x): the test of `x ? a : b`, and Boolean(x)
Truthy(x) ==
  CASE x.t = "string"  -> Len(x.v) > 0
    [] x.t = "number"  -> x.v # 0
    [] x.t = "boolean" -> x.v
    [] x.t \in {"undefined", "null"} -> FALSE
    [] OTHER -> TRUE

\* obj.key: undefined when the object has no such property
Get(obj, key) == IF key \in DOMAIN obj THEN obj[key] ELSE Undefined

\* new McpError(code, message); the message is kept as its template pieces
McpError(code, message) == [t |-> "throw", class |-> "McpError", code |-> code, message |-> message]

IsThrow(r) == r.t = "throw"

-----------------------------------------------------------------------------
(* Characters *)

UpperCase == <<"A","B","C","D","E","F","G","H","I","J","K","L","M",
               "N","O","P","Q","R","S","T","U","V","W","X","Y","Z">>
LowerCase == <<"a","b","c","d","e","f","g","h","i","j","k","l","m",
               "n","o","p","q","r","s","t","u","v","w","x","y","z">>
Digits    == <<"0","1","2","3","4","5","6","7","8","9">>

Range(f) == {f[i] : i \in DOMAIN f}

\* the case folding of the regular expression flag i, on ASCII
ToLower(c) ==
  IF c \in Range(UpperCase)
    THEN LowerCase[CHOOSE i \in DOMAIN UpperCase : UpperCase[i] = c]
    ELSE c

\* the classes \s, \d and \w
IsSpace(c) == c \in {" ", "\t", "\n", "\r"}
IsDigit(c) == c \in Range(Digits)
IsWord(c)  == c \in Range(UpperCase) \cup Range(LowerCase) \cup Range(Digits) \cup {"_"}

DigitValue(c) == (CHOOSE i \in DOMAIN Digits : Digits[i] = c) - 1

\* String.prototype.trim
RECURSIVE TrimStart(_)
TrimStart(s) == IF s # <<>> /\ IsSpace(Head(s)) THEN TrimStart(Tail(s)) ELSE s

RECURSIVE TrimEnd(_)
TrimEnd(s) ==
  IF s # <<>> /\ IsSpace(s[Len(s)]) THEN TrimEnd(SubSeq(s, 1, Len(s) - 1)) ELSE s

Trim(s) == TrimEnd(TrimStart(s))

-----------------------------------------------------------------------------
(* Regular expressions of the deny-list.  A pattern is a sequence of       *)
(* elements: "\\s+", "\\w+", or a literal character matched without case.  *)

\* pat[pi..] matches a prefix of s[si..]
RECURSIVE MatchAt(_, _, _, _)
MatchAt(pat, pi, s, si) ==
  IF pi > Len(pat) THEN TRUE
  ELSE IF pat[pi] = "\\s+" THEN
    \E k \in 1..(Len(s) - si + 1) :
       /\ \A j \in si..(si + k - 1) : IsSpace(s[j])
       /\ MatchAt(pat, pi + 1, s, si + k)
  ELSE IF pat[pi] = "\\w+" THEN
    \E k \in 1..(Len(s) - si + 1) :
       /\ \A j \in si..(si + k - 1) : IsWord(s[j])
       /\ MatchAt(pat, pi + 1, s, si + k)
  ELSE
    /\ si <= Len(s)
    /\ ToLower(s[si]) = ToLower(pat[pi])
    /\ MatchAt(pat, pi + 1, s, si + 1)

\* a pattern that matches at the start of the text only
RegexTestAnchored(pat, s) == MatchAt(pat, 1, s, 1)

\* pattern.test(s) for an unanchored pattern: a match may start anywhere
RegexTest(pat, s) == \E si \in 1..Len(s) : MatchAt(pat, 1, s, si)

dangerousPatterns == <<
  <<"t","e","l","l","\\s+","a","p","p","l","i","c","a","t","i","o","n">>,
  <<"e","n","d","\\s+","t","e","l","l">>,
  <<"s","e","t","\\s+","\\w+","\\s+","t","o">>,
  <<"d","o","\\s+","s","h","e","l","l","\\s+","s","c","r","i","p","t">>,
  <<"o","s","a","s","c","r","i","p","t">> >>

-----------------------------------------------------------------------------
(* SERVER_CONFIG *)

maxStringLength == 2000
maxArrayLength  == 100
maxNotesLength  == 10000
maxItemLength   == 100

InvalidParams  == "InvalidParams"
InternalError  == "InternalError"
MethodNotFound == "MethodNotFound"

-----------------------------------------------------------------------------
(* ThingsValidator *)

validateStringInput(in, fieldName, maxLength) ==
  IF TypeOf(in) # "string" THEN
    McpError(InvalidParams, <<fieldName, " must be a string">>)
  ELSE IF Len(in.v) = 0 THEN
    McpError(InvalidParams, <<fieldName, " cannot be empty">>)
  ELSE IF Len(in.v) > maxLength THEN
    McpError(InvalidParams, <<fieldName, " cannot exceed ", "maxLength", " characters">>)
  ELSE IF \E p \in DOMAIN dangerousPatterns : RegexTest(dangerousPatterns[p], in.v) THEN
    McpError(InvalidParams, <<fieldName, " contains potentially dangerous script patterns">>)
  ELSE Str(Trim(in.v))

\* /^\d{4}-\d{2}-\d{2}$/.test(s)
dateRegex(s) ==
  /\ Len(s) = 10
  /\ \A i \in {1, 2, 3, 4, 6, 7, 9, 10} : IsDigit(s[i])
  /\ s[5] = "-"
  /\ s[8] = "-"

\* the fields of a string that matches dateRegex
YearOf(s)  == 1000 * DigitValue(s[1]) + 100 * DigitValue(s[2]) + 10 * DigitValue(s[3]) + DigitValue(s[4])
MonthOf(s) == 10 * DigitValue(s[6]) + DigitValue(s[7])
DayOf(s)   == 10 * DigitValue(s[9]) + DigitValue(s[10])

\* isNaN(new Date(s).getTime()) for s matching dateRegex, on Node's engine
\* (package.json engines: node >= 18): the date-only ISO form is accepted
\* when the month is 01..12 and the day is 01..31, whatever the month; a
\* day past the end of the month rolls over into the next month.
DateIsNaN(s) == ~(MonthOf(s) \in 1..12 /\ DayOf(s) \in 1..31)

validateDateInput(in, fieldName) ==
  IF TypeOf(in) # "string" THEN
    McpError(InvalidParams, <<fieldName, " must be a string in YYYY-MM-DD format">>)
  ELSE IF ~dateRegex(in.v) THEN
    McpError(InvalidParams, <<fieldName, " must be in YYYY-MM-DD format">>)
  ELSE IF DateIsNaN(in.v) THEN
    McpError(InvalidParams, <<fieldName, " is not a valid date">>)
  ELSE in

\* input.map(item => validateStringInput(item, fieldName + " item", cap)):
\* the first item that throws ends the map
MapItemsUnder(items, fieldName, cap) ==
  LET results  == [i \in DOMAIN items |->
                    validateStringInput(items[i], fieldName \o " item", cap)]
      throwing == {i \in DOMAIN items : IsThrow(results[i])}
  IN IF items = <<>> THEN Arr(<<>>)
     ELSE IF throwing = {} THEN Arr(results)
     ELSE results[CHOOSE i \in throwing : \A j \in throwing : i <= j]

\* the items validated under the cap of a string field
MapItemsUnderFieldCap(items, fieldName) == MapItemsUnder(items, fieldName, maxStringLength)

\* input.map(item => this.validateStringInput(item, `${fieldName} item`, 100))
MapItems(items, fieldName) == MapItemsUnder(items, fieldName, maxItemLength)

validateArrayInput(in, fieldName, maxItems) ==
  IF in.t # "array" THEN
    McpError(InvalidParams, <<fieldName, " must be an array">>)
  ELSE IF Len(in.v) > maxItems THEN
    McpError(InvalidParams, <<fieldName, " cannot exceed ", "maxItems", " items">>)
  ELSE MapItems(in.v, fieldName)

-----------------------------------------------------------------------------
(* ParameterMapper *)

\* a field whose fallback wins whenever the fallback has a value
StringFieldFallbackFirst(a, key, cap, otherwise) ==
  IF otherwise # Null THEN otherwise
  ELSE IF Truthy(Get(a, key)) THEN validateStringInput(Get(a, key), key, cap) ELSE otherwise

\* args.key ? validateStringInput(args.key, key, cap) : otherwise
StringField(a, key, cap, otherwise) ==
  IF Truthy(Get(a, key)) THEN validateStringInput(Get(a, key), key, cap) ELSE otherwise

\* args.key ? validateDateInput(args.key, key) : otherwise
DateField(a, key, otherwise) ==
  IF Truthy(Get(a, key)) THEN validateDateInput(Get(a, key), key) ELSE otherwise

\* a schedule date read from `when` alone
ActivationDateWithoutAlias(a) == DateField(a, "when", Null)

\* args.when ? validateDateInput(args.when, "when")
\*           : (args.due_date ? validateDateInput(args.due_date, "due_date") : null)
ActivationDate(a) == DateField(a, "when", DateField(a, "due_date", Null))

\* args.key ? validateArrayInput(args.key, key) : null
ArrayField(a, key) ==
  IF Truthy(Get(a, key)) THEN validateArrayInput(Get(a, key), key, maxArrayLength) ELSE Null

\* a flag kept only when its value is truthy: args.key ? Boolean(args.key) : null
FlagFieldIfTruthy(a, key) ==
  IF Truthy(Get(a, key)) THEN Bool(TRUE) ELSE Null

\* args.key !== undefined ? Boolean(args.key) : null
FlagField(a, key) ==
  IF Get(a, key) # Undefined THEN Bool(Truthy(Get(a, key))) ELSE Null

\* the properties of the object literal `result`, in evaluation order
ResultFields(a) == <<
  <<"name", StringField(a, "title", maxStringLength,
              StringField(a, "name", maxStringLength, Null))>>,
  <<"title", StringField(a, "title", maxStringLength, Null)>>,
  <<"id", StringField(a, "id", maxStringLength, Null)>>,
  <<"notes", StringField(a, "notes", maxNotesLength, Null)>>,
  <<"activation_date", ActivationDate(a)>>,
  <<"due_date", DateField(a, "deadline", Null)>>,
  <<"area", StringField(a, "area_title", maxStringLength,
              StringField(a, "area", maxStringLength, Null))>>,
  <<"area_id", StringField(a, "area_id", maxStringLength, Null)>>,
  <<"project", StringField(a, "list_title", maxStringLength,
                 StringField(a, "project", maxStringLength, Null))>>,
  <<"list_id", StringField(a, "list_id", maxStringLength, Null)>>,
  <<"tags", ArrayField(a, "tags")>>,
  <<"checklist_items", ArrayField(a, "checklist_items")>>,
  <<"todos", ArrayField(a, "todos")>>,
  <<"heading", StringField(a, "heading", maxStringLength, Null)>>,
  <<"completed", FlagField(a, "completed")>>,
  <<"canceled", FlagField(a, "canceled")>> >>

\* a result left as assembled
KeepNull(result) == result

\* Object.fromEntries(Object.entries(result).filter(([_, v]) => v !== null))
RemoveNull(result) ==
  [k \in {j \in DOMAIN result : result[j] # Null} |-> result[k]]

\* validateAndMapParameters(args, additionalFields): the first validator that
\* throws ends the call; otherwise the extras are spread over the fields and
\* the null values are removed
MappedFields(fields, extra) ==
  LET thrown == {i \in DOMAIN fields : IsThrow(fields[i][2])}
      names  == {fields[i][1] : i \in DOMAIN fields}
      own(k) == fields[CHOOSE i \in DOMAIN fields : fields[i][1] = k][2]
      result == [k \in names \cup DOMAIN extra |->
                   IF k \in DOMAIN extra THEN extra[k] ELSE own(k)]
  IN IF thrown # {}
       THEN fields[CHOOSE i \in thrown : \A j \in thrown : i <= j][2]
       ELSE Obj(RemoveNull(result))

validateAndMapParameters(a, extra) == MappedFields(ResultFields(a), extra)

-----------------------------------------------------------------------------
(* Specification SpecDate: validateDateInput applied to one input.         *)

Years   == {<<"1","9","0","0">>, <<"2","0","0","0">>, <<"2","0","2","3">>, <<"2","0","2","4">>}
Months  == {<<"0","0">>, <<"0","1">>, <<"0","2">>, <<"0","4">>, <<"1","2">>, <<"1","3">>}
Days    == {<<"0","0">>, <<"0","1">>, <<"2","8">>, <<"2","9">>, <<"3","0">>, <<"3","1">>, <<"3","2">>}

\* strings of the shape YYYY-MM-DD, real dates or not
ShapedDates == {y \o <<"-">> \o m \o <<"-">> \o d : y \in Years, m \in Months, d \in Days}

\* strings that do not match the pattern
UnshapedDates == {
  <<>>,
  <<"2","0","2","4">>,
  <<"2","0","2","4","-","1","-","0","1">>,
  <<"2","0","2","4","/","0","1","/","0","1">>,
  <<"2","4","-","0","1","-","0","1">>,
  <<"2","0","2","4","-","0","1","-","0","1"," ">>,
  <<" ","2","0","2","4","-","0","1","-","0","1">>,
  <<"2","0","2","4","-","0","1","-","0","1","T","0","0">>,
  <<"2","0","2","4","-","0","a","-","0","1">>,
  <<"t","o","d","a","y">> }

NonStrings == {Undefined, Null, Num(0), Num(20240101), Bool(TRUE), Bool(FALSE), Arr(<<>>), EmptyObject}

DateInputs == {Str(s) : s \in ShapedDates \cup UnshapedDates} \cup NonStrings

ValidatorIdle ==
  /\ input = Null
  /\ maxLengthArg = 0
  /\ validated = Pending

MapperIdle ==
  /\ args = << >>
  /\ additionalFields = << >>
  /\ mapped = Pending
  /\ remapped = Pending

CallIdle ==
  /\ pc = "idle"
  /\ request = << >>
  /\ things = << >>
  /\ locals = << >>
  /\ executed = << >>
  /\ outcome = Pending

InitDate ==
  /\ input \in DateInputs
  /\ maxLengthArg = 0
  /\ validated = Pending
  /\ MapperIdle
  /\ CallIdle

ValidateDate ==
  /\ validated = Pending
  /\ validated' = validateDateInput(input, "when")
  /\ UNCHANGED <<input, maxLengthArg, mapperVars, callVars>>

NextDate == ValidateDate

SpecDate == InitDate /\ [][NextDate]_vars

-----------------------------------------------------------------------------
(* Specification SpecMap: validateAndMapParameters applied to the caller's *)
(* arguments, and then once more to its own result.                        *)

BuyMilk       == <<"B", "u", "y", " ", "m", "i", "l", "k">>
BuyMilkPadded == <<" ", "B", "u", "y", " ", "m", "i", "l", "k", " ">>
Blank         == <<" ", " ">>
OldTask       == <<"O", "l", "d", " ", "t", "a", "s", "k">>
OldTaskPadded == <<"O", "l", "d", " ", "t", "a", "s", "k", "\t">>
Osascript     == <<"o", "s", "a", "s", "c", "r", "i", "p", "t">>
Date1         == <<"2", "0", "2", "5", "-", "0", "1", "-", "1", "0">>
Date2         == <<"2", "0", "2", "4", "-", "1", "2", "-", "2", "5">>
Date3         == <<"2", "0", "2", "4", "-", "1", "2", "-", "3", "1">>
Month13       == <<"2", "0", "2", "4", "-", "1", "3", "-", "0", "1">>
NotADate      == <<"t", "o", "m", "o", "r", "r", "o", "w">>
Work          == <<"w", "o", "r", "k">>
UrgentPadded  == <<" ", "u", "r", "g", "e", "n", "t", " ">>
NotAnArray    == <<"n", "o", "t", "-", "a", "n", "-", "a", "r", "r", "a", "y">>

TitleValues == {Str(BuyMilk), Str(BuyMilkPadded), Str(Blank), Str(<<>>), Str(Osascript), Num(5)}
NameValues  == {Str(OldTask), Str(OldTaskPadded), Str(<<>>)}
DateValues  == {Str(Date1), Str(Date2), Str(Date3), Str(Month13), Str(NotADate), Str(<<>>), Null}
IdValues    == {Str(Work), Str(UrgentPadded)}
PlaceValues == {Str(Work), Str(UrgentPadded), Str(<<>>)}
ArrayValues == {Arr(<<>>), Arr(<<Str(Work)>>), Arr(<<Str(UrgentPadded), Str(Work)>>),
                Arr(<<Num(5)>>), Arr(<<Str(Osascript)>>)}
NonArrayValues == {Str(NotAnArray), Str(<<>>), Num(0), Num(5), Bool(FALSE), Bool(TRUE),
                   EmptyObject, Null}
FlagValues  == {Bool(TRUE), Bool(FALSE), Null, Num(0), Num(5), Str(<<>>), Str(Work)}

\* groups of argument names, each name with the values tried for it
ArgumentFamilies == {
  [title |-> TitleValues, name |-> NameValues, when |-> DateValues,
   due_date |-> DateValues, deadline |-> DateValues],
  [id |-> IdValues, tags |-> ArrayValues \cup NonArrayValues,
   checklist_items |-> {Arr(<<>>), Arr(<<Str(Work)>>), Str(NotAnArray), Num(0), Null},
   todos |-> {Arr(<<>>), Arr(<<Str(Work)>>), Str(NotAnArray), Bool(FALSE), Null}],
  [list_id |-> PlaceValues, list_title |-> PlaceValues, project |-> PlaceValues,
   area_id |-> PlaceValues, area_title |-> PlaceValues, area |-> PlaceValues],
  [title |-> TitleValues, id |-> PlaceValues, notes |-> TitleValues, heading |-> PlaceValues],
  [id |-> IdValues, completed |-> FlagValues, canceled |-> FlagValues] }

Extend(f, key, value) == [k \in DOMAIN f \cup {key} |-> IF k = key THEN value ELSE f[k]]

\* every object whose keys are some of the family's names
RECURSIVE ObjectsOver(_, _)
ObjectsOver(keys, family) ==
  IF keys = {} THEN {<< >>}
  ELSE LET key  == CHOOSE k \in keys : TRUE
           rest == ObjectsOver(keys \ {key}, family)
       IN rest \cup {Extend(f, key, value) : f \in rest, value \in family[key]}

ArgumentObjects == UNION {ObjectsOver(DOMAIN family, family) : family \in ArgumentFamilies}

\* the operation-specific extras handed to the mapper
ExtraFieldObjects == {
  << >>,
  [operation |-> Str(Work)],
  [note |-> Null],
  [note |-> Undefined],
  [due_date |-> Str(Date3)],
  [name |-> Null] }

\* extras are tried with argument objects of at most this many keys
MaxKeysWithExtras == 2

InitMap ==
  /\ args \in ArgumentObjects
  /\ additionalFields \in
       IF Cardinality(DOMAIN args) <= MaxKeysWithExtras THEN ExtraFieldObjects ELSE {<< >>}
  /\ mapped = Pending
  /\ remapped = Pending
  /\ ValidatorIdle
  /\ CallIdle

\* scriptParams = ParameterMapper.validateAndMapParameters(args, additionalFields)
Map ==
  /\ mapped = Pending
  /\ mapped' = validateAndMapParameters(args, additionalFields)
  /\ UNCHANGED <<validatorVars, args, additionalFields, remapped, callVars>>

\* the mapper applied to its own result
Remap ==
  /\ mapped # Pending
  /\ ~IsThrow(mapped)
  /\ remapped = Pending
  /\ remapped' = validateAndMapParameters(mapped.v, << >>)
  /\ UNCHANGED <<validatorVars, args, additionalFields, mapped, callVars>>

NextMap == Map \/ Remap

SpecMap == InitMap /\ [][NextMap]_vars

-----------------------------------------------------------------------------
(* Claim C7 *)

IsLeapYear(y) == (y % 4 = 0 /\ y % 100 # 0) \/ y % 400 = 0

DaysInMonth(y, m) ==
  IF m = 2 THEN (IF IsLeapYear(y) THEN 29 ELSE 28)
  ELSE IF m \in {4, 6, 9, 11} THEN 30 ELSE 31

\* s is a real calendar date written YYYY-MM-DD
IsCalendarDate(s) ==
  /\ dateRegex(s)
  /\ MonthOf(s) \in 1..12
  /\ DayOf(s) \in 1..DaysInMonth(YearOf(s), MonthOf(s))

\* C7: validateDateInput returns its input unchanged for every real calendar
\* date written YYYY-MM-DD, and throws InvalidParams for every other value: a
\* non-string, a string of another shape, and a string of the right shape
\* that is no real calendar date (2024-02-30, month 13).
C7_DateValidation ==
  validated # Pending =>
    IF input.t = "string" /\ IsCalendarDate(input.v)
      THEN validated = input
      ELSE IsThrow(validated) /\ validated.code = InvalidParams

-----------------------------------------------------------------------------
(* Specification SpecString: validateStringInput applied to one input, a   *)
(* text assembled from a prefix, a core and a suffix, under a maxLength.   *)

\* texts that hold a deny-listed construct, in several spellings
DangerousInstances == {
  <<"t", "e", "l", "l", " ", "a", "p", "p", "l", "i", "c", "a", "t", "i", "o", "n">>,
  <<"T", "E", "L", "L", " ", " ", "A", "p", "p", "l", "i", "c", "a", "t", "i", "o", "n">>,
  <<"e", "n", "d", " ", "t", "e", "l", "l">>,
  <<"E", "n", "d", "\t", "T", "e", "l", "l">>,
  <<"s", "e", "t", " ", "x", " ", "t", "o">>,
  <<"S", "E", "T", " ", "f", "o", "o", "_", "1", "\n", "t", "o">>,
  <<"d", "o", " ", "s", "h", "e", "l", "l", " ", "s", "c", "r", "i", "p", "t">>,
  <<"D", "o", " ", " ", "S", "h", "e", "l", "l", " ", "S", "c", "r", "i", "p", "t">>,
  <<"o", "s", "a", "s", "c", "r", "i", "p", "t">>,
  <<"O", "S", "A", "S", "c", "r", "i", "p", "t">> }

\* texts that resemble one and hold none
HarmlessCores == {
  <<"t", "e", "l", "l", "a", "p", "p", "l", "i", "c", "a", "t", "i", "o", "n">>,
  <<"t", "e", "l", "l">>,
  <<"s", "e", "t", " ", "t", "o">>,
  <<"s", "e", "t", " ", "a", " ", "b", " ", "t", "o">>,
  <<"d", "o", " ", "s", "h", "e", "l", "l">>,
  <<"o", "s", "a", " ", "s", "c", "r", "i", "p", "t">>,
  <<"e", "n", "d">>,
  <<"B", "u", "y", " ", "m", "i", "l", "k">>,
  <<"r", "e", "s", "e", "t">> }

Prefixes == {
  <<>>,
  <<"a">>,
  <<"B", "u", "y", " ", "m", "i", "l", "k", ",", " ">>,
  <<" ", " ">> }

Suffixes == {
  <<>>,
  <<"!">>,
  <<" ", "n", "o", "w">> }

StringInputs ==
  {Str(p \o c \o x) : p \in Prefixes, c \in DangerousInstances \cup HarmlessCores, x \in Suffixes}
    \cup NonStrings

MaxLengths == {4, maxItemLength, maxStringLength, maxNotesLength}

InitString ==
  /\ input \in StringInputs
  /\ maxLengthArg \in MaxLengths
  /\ validated = Pending
  /\ MapperIdle
  /\ CallIdle

ValidateString ==
  /\ validated = Pending
  /\ validated' = validateStringInput(input, "title", maxLengthArg)
  /\ UNCHANGED <<input, maxLengthArg, mapperVars, callVars>>

NextString == ValidateString

SpecString == InitString /\ [][NextString]_vars

-----------------------------------------------------------------------------
(* Claim C6 *)

\* sub occurs in s as a contiguous run of characters
Contains(s, sub) ==
  \E i \in 1..(Len(s) - Len(sub) + 1) : SubSeq(s, i, i + Len(sub) - 1) = sub

ContainsDangerousInstance(s) == \E d \in DangerousInstances : Contains(s, d)

\* C6: every string that holds a deny-listed construct, in any letter case and
\* anywhere in the text, is rejected by validateStringInput with InvalidParams,
\* whatever surrounds it and whatever maxLength is passed.
C6_DenyListRejects ==
  (validated # Pending /\ input.t = "string" /\ ContainsDangerousInstance(input.v))
    => (IsThrow(validated) /\ validated.code = InvalidParams)

\* a construct in capitals, inside legitimate text that fits the length cap,
\* has been rejected for its pattern
C6_Witness ==
  /\ validated # Pending
  /\ input.t = "string"
  /\ Contains(input.v, <<"O", "S", "A", "S", "c", "r", "i", "p", "t">>)
  /\ Head(input.v) = "B"
  /\ Len(input.v) <= maxLengthArg
  /\ IsThrow(validated)
  /\ validated.message = <<"title", " contains potentially dangerous script patterns">>

-----------------------------------------------------------------------------
(* Claims C1 to C5, on the mapper *)

\* x is a string validateStringInput accepts under the default cap
IsValidText(x) ==
  /\ x.t = "string"
  /\ Len(x.v) \in 1..maxStringLength
  /\ ~ContainsDangerousInstance(x.v)

IsValidDate(x) == x.t = "string" /\ IsCalendarDate(x.v)

MappedOk == mapped # Pending /\ ~IsThrow(mapped)

\* the input {title: T, when: D}, T a valid string and D a valid date, no extras
C1_Input ==
  /\ DOMAIN args = {"title", "when"}
  /\ IsValidText(args["title"])
  /\ IsValidDate(args["when"])
  /\ additionalFields = << >>

\* C1 as stated: {title: T, when: D} maps to exactly {name, title,
\* activation_date} with name = title = T and activation_date = D.
C1_AsStated ==
  (mapped # Pending /\ C1_Input) =>
    /\ ~IsThrow(mapped)
    /\ DOMAIN mapped.v = {"name", "title", "activation_date"}
    /\ mapped.v["name"] = args["title"]
    /\ mapped.v["title"] = args["title"]
    /\ mapped.v["activation_date"] = args["when"]

\* C1 (amended): {title: T, when: D} maps to exactly {name, title,
\* activation_date}, with name = title = T without its leading and trailing
\* whitespace and activation_date = D; there is no due_date key.
C1_BasicMapping ==
  (mapped # Pending /\ C1_Input) =>
    /\ ~IsThrow(mapped)
    /\ DOMAIN mapped.v = {"name", "title", "activation_date"}
    /\ mapped.v["name"] = Str(Trim(args["title"].v))
    /\ mapped.v["title"] = Str(Trim(args["title"].v))
    /\ mapped.v["activation_date"] = args["when"]

\* {title: " Buy milk ", when: "2025-01-10"} has been mapped
C1_Witness ==
  /\ C1_Input
  /\ args["title"] = Str(BuyMilkPadded)
  /\ MappedOk
  /\ mapped.v["name"] = Str(BuyMilk)

\* C2: the object validateAndMapParameters returns holds no key whose value is
\* null or undefined, for every rawArgs and every extraFields.
C2_NoNullOrUndefined ==
  MappedOk => \A k \in DOMAIN mapped.v : mapped.v[k] \notin {Null, Undefined}

\* the input of C3: some of title, name, when, due_date and deadline, each
\* with a valid value, no extras
C3_Input ==
  /\ DOMAIN args \subseteq {"title", "name", "when", "due_date", "deadline"}
  /\ \A k \in DOMAIN args \cap {"title", "name"} : IsValidText(args[k])
  /\ \A k \in DOMAIN args \cap {"when", "due_date", "deadline"} : IsValidDate(args[k])
  /\ additionalFields = << >>

\* the value of key k in the mapped object, Undefined when the key is absent
MappedValue(k) == Get(mapped.v, k)

\* the key resolution of C3, parametrised by what the mapper does to a text
C3_Resolution(Text(_)) ==
  (mapped # Pending /\ C3_Input) =>
    /\ ~IsThrow(mapped)
    /\ MappedValue("name") =
         IF "title" \in DOMAIN args THEN Text(args["title"])
         ELSE IF "name" \in DOMAIN args THEN Text(args["name"])
         ELSE Undefined
    /\ MappedValue("title") =
         IF "title" \in DOMAIN args THEN Text(args["title"]) ELSE Undefined
    /\ MappedValue("activation_date") =
         IF "when" \in DOMAIN args THEN args["when"]
         ELSE IF "due_date" \in DOMAIN args THEN args["due_date"]
         ELSE Undefined
    /\ MappedValue("due_date") =
         IF "deadline" \in DOMAIN args THEN args["deadline"] ELSE Undefined

AsGiven(x) == x
Trimmed(x) == Str(Trim(x.v))

\* C3 as stated: {name: X, due_date: D} yields name = X and activation_date =
\* D; title wins over name and when over due_date; the internal due_date key
\* is filled from deadline alone.
C3_AsStated == C3_Resolution(AsGiven)

\* C3 (amended): as stated, except that name (and title) hold X without its
\* leading and trailing whitespace.
C3_LegacyAliases == C3_Resolution(Trimmed)

\* both the canonical names and their legacy aliases were supplied, with
\* different values, and the canonical ones won; the legacy due_date did not
\* reach the internal due_date key
C3_Witness ==
  /\ C3_Input
  /\ {"title", "name", "when", "due_date"} \subseteq DOMAIN args
  /\ "deadline" \notin DOMAIN args
  /\ args["when"] # args["due_date"]
  /\ MappedOk
  /\ mapped.v["name"] = Trimmed(args["title"])
  /\ mapped.v["activation_date"] = args["when"]
  /\ "due_date" \notin DOMAIN mapped.v

\* the canonical input {title, when, deadline}, all valid, no extras
C4_Input ==
  /\ DOMAIN args = {"title", "when", "deadline"}
  /\ IsValidText(args["title"])
  /\ IsValidDate(args["when"])
  /\ IsValidDate(args["deadline"])
  /\ additionalFields = << >>

\* C4 as stated: mapping the result of mapping {title, when, deadline} yields
\* that same result.
C4_AsStated ==
  (remapped # Pending /\ C4_Input) => remapped = mapped

\* C4 (amended): mapping the result of mapping {title, when, deadline} keeps
\* name and title (it drops them when the trimmed title is empty), but
\* returns activation_date = the deadline and no due_date key: the first
\* result's due_date is read as the legacy alias of when.
C4_SecondMapping ==
  (remapped # Pending /\ C4_Input) =>
    /\ ~IsThrow(remapped)
    /\ DOMAIN remapped.v \subseteq {"name", "title", "activation_date"}
    /\ \A k \in {"name", "title"} :
         Get(remapped.v, k) = IF Truthy(mapped.v[k]) THEN mapped.v[k] ELSE Undefined
    /\ Get(remapped.v, "activation_date") = args["deadline"]

\* a canonical input whose when and deadline differ has been mapped twice
C4_Witness ==
  /\ C4_Input
  /\ args["when"] # args["deadline"]
  /\ args["title"] = Str(BuyMilk)
  /\ remapped # Pending
  /\ ~IsThrow(remapped)
  /\ DOMAIN remapped.v = {"name", "title", "activation_date"}

CollectionFields == {"tags", "checklist_items", "todos"}

\* the input of C5: collection fields and an id, the arrays among them valid
C5_Input ==
  /\ DOMAIN args \subseteq CollectionFields \cup {"id"}
  /\ \A k \in DOMAIN args \cap CollectionFields :
       args[k].t = "array" => \A i \in DOMAIN args[k].v : IsValidText(args[k].v[i])
  /\ additionalFields = << >>

\* the supplied collection fields whose value is neither an array nor null
NonArrayFields == {k \in DOMAIN args \cap CollectionFields : args[k].t \notin {"array", "null"}}

\* C5: a collection field supplied with a value that is neither an array nor
\* null makes validateAndMapParameters throw InvalidParams '<field> must be an
\* array' (never silently dropped); null is omitted and [] is kept as [].
C5_NonArrayRejected ==
  (mapped # Pending /\ C5_Input) =>
    /\ \A k \in NonArrayFields :
         NonArrayFields = {k} =>
           (IsThrow(mapped) /\ mapped.code = InvalidParams
              /\ mapped.message = <<k, " must be an array">>)
    /\ NonArrayFields = {} =>
         /\ ~IsThrow(mapped)
         /\ \A k \in DOMAIN args \cap CollectionFields :
              /\ args[k] = Null => k \notin DOMAIN mapped.v
              /\ args[k] = Arr(<<>>) => Get(mapped.v, k) = Arr(<<>>)

-----------------------------------------------------------------------------
(* Errors, JSON and the configuration of the executor *)

maxRequestSize == 32768
maxScriptSize  == 102400

JXA_TIMEOUT         == "JXA execution timed out"
THINGS_CHECK_FAILED == "Failed to check if Things 3 is running"

Return(value) == [t |-> "return", v |-> value]

\* new Error(message) and the subclasses of utils.js; code is the error's
\* `code` property ("none" when it has none)
Throw(class, code, message) == [t |-> "throw", class |-> class, code |-> code, message |-> message]

JXAExecutionError(message) ==
  Throw("JXAExecutionError", "JXA_EXECUTION_ERROR", <<"JXA execution failed: ">> \o message)

ThingsNotRunningError ==
  Throw("ThingsNotRunningError", "THINGS_NOT_RUNNING",
        <<"Things 3 is not running. Please launch Things 3 and try again.">>)

\* what JSON.stringify keeps of a value: a property whose value is
\* undefined is left out, an undefined array element becomes null
RECURSIVE JSONValue(_)
JSONValue(x) ==
  IF x.t = "object" THEN
    Obj([k \in {j \in DOMAIN x.v : x.v[j] # Undefined} |-> JSONValue(x.v[k])])
  ELSE IF x.t = "array" THEN
    Arr([i \in DOMAIN x.v |-> IF x.v[i] = Undefined THEN Null ELSE JSONValue(x.v[i])])
  ELSE x

\* a text is either the JSON of a value or something JSON.parse rejects
JSONStringify(x) == [t |-> "json", v |-> JSONValue(x)]
NotJSON          == [t |-> "text", v |-> <<"execution error: Error: Application can't be found.">>]

JSONParse(text) ==
  IF text.t = "json" THEN Return(text.v)
  ELSE Throw("SyntaxError", "none", <<"Unexpected token e in JSON at position 0">>)

\* a || b
OrElse(a, b) == IF Truthy(a) THEN a ELSE b

-----------------------------------------------------------------------------
(* ThingsExtension.executeJXA *)

\* } catch (error) { ... }: the catch clause around the whole body
OuterCatch(error) ==
  IF error.code = "ETIMEDOUT" THEN McpError(InternalError, <<JXA_TIMEOUT>>)
  ELSE McpError(InternalError, <<"JXA execution failed: ">> \o error.message)

\* if (script.length > SERVER_CONFIG.validation.maxScriptSize) throw ...
ScriptTooLarge(script) == script.length > maxScriptSize

ScriptTooLargeError ==
  McpError(InvalidParams, <<"Generated JXA script too large: ", "script.length", " bytes">>)

\* the command line handed to execAsync: the script and the JSON of the
\* parameters ('{}' when there are none)
Command(script, params) ==
  [script |-> script, params |-> JSONStringify(params), answer |-> Pending]

\* the log of the executor once its last command has been answered
Answered(log, answer) == [log EXCEPT ![Len(log)].answer = answer]

\* try { parsed = JSON.parse(result); if (parsed.success === false &&
\* parsed.error) throw new JXAExecutionError(...); return parsed }
\* catch (parseError) { throw new JXAExecutionError("Invalid JXA response: ...") }
ParseResponse(stdout) ==
  LET parsed == JSONParse(stdout)
      inner  ==
        IF IsThrow(parsed) THEN parsed
        ELSE IF Get(parsed.v.v, "success") = Bool(FALSE) /\ Truthy(Get(parsed.v.v, "error"))
          THEN JXAExecutionError(
                 OrElse(Get(Get(parsed.v.v, "error").v, "message"),
                        Str(<<"JXA script returned an error">>)).v)
        ELSE parsed
  IN IF IsThrow(inner)
       THEN JXAExecutionError(<<"Invalid JXA response: ">> \o inner.message)
       ELSE inner

\* what executeJXA returns or throws once execAsync has settled with answer
ExecuteJXASettled(answer) ==
  IF answer.kind = "rejected" THEN
    OuterCatch(Throw("Error", answer.code, answer.message))
  ELSE IF answer.stderr # <<>> THEN
    OuterCatch(Throw("Error", "none", <<"JXA error: ">> \o answer.stderr))
  ELSE LET r == ParseResponse(answer.stdout)
       IN IF IsThrow(r) THEN OuterCatch(r) ELSE r

-----------------------------------------------------------------------------
(* The executor (child_process.exec through promisify) *)

\* the ways execAsync rejects: the timeout kills the child (code null,
\* killed), the command exits with a status other than 0, the output
\* overflows maxBuffer, the system call itself fails with an error name
ExecRejections == {
  [kind |-> "rejected", cause |-> "timeout", code |-> "null",
   message |-> <<"Command failed: osascript -l JavaScript">>],
  [kind |-> "rejected", cause |-> "exit", code |-> "1",
   message |-> <<"Command failed: osascript -l JavaScript", "execution error">>],
  [kind |-> "rejected", cause |-> "maxBuffer", code |-> "ERR_CHILD_PROCESS_STDIO_MAXBUFFER",
   message |-> <<"stdout maxBuffer length exceeded">>],
  [kind |-> "rejected", cause |-> "system", code |-> "ETIMEDOUT",
   message |-> <<"spawn ETIMEDOUT">>] }

Resolved(stdout, stderr) ==
  [kind |-> "resolved", cause |-> "exit0", stdout |-> stdout, stderr |-> stderr]

\* the script's envelope: {success: true, data} and {success: false, error}
Success(data) == Obj([success |-> Bool(TRUE), data |-> data])
Failure(type, message, code) ==
  Obj([success |-> Bool(FALSE),
       error |-> Obj([type |-> Str(<<type>>), message |-> Str(<<message>>), code |-> Num(code)])])

\* the catch of TEMPLATE_SUFFIX, for a fault raised inside the body
EnvelopeFailure == Failure("Error", "Can't get object.", -1728)

-----------------------------------------------------------------------------
(* The target application and what a script does to it *)

NewId == <<"n", "e", "w", "1">>

Item(type, status) == [type |-> type, status |-> status]

\* the items of the application, by id
ItemSets == {
  << >>,
  [i \in {Work} |-> Item("todo", "open")],
  [i \in {Work} |-> Item("project", "open")],
  [i \in {Work} |-> Item("area", "open")] }

ThingsStates == [running : BOOLEAN, items : ItemSets]

\* the length of each template's text
TemplateLength(name) ==
  CASE name = "isThingsRunning" -> 692
    [] name = "getTags" -> 3606
    [] name = "getAreas" -> 4439
    [] name = "getInbox" -> 3645
    [] name = "getToday" -> 3643
    [] name = "getUpcoming" -> 3646
    [] name = "getAnytime" -> 3645
    [] name = "getSomeday" -> 3645
    [] name = "getProjects" -> 3820
    [] name = "searchTodos" -> 3942
    [] name = "createTodo" -> 5926
    [] name = "createProject" -> 5256
    [] name = "updateTodo" -> 5699
    [] name = "updateProject" -> 5131
    [] name = "getLogbook" -> 4538
    [] name = "getTrash" -> 4066
    [] name = "getTodos" -> 3958
    [] name = "searchAdvanced" -> 5596
    [] name = "getRecent" -> 4777
    [] name = "getTaggedItems" -> 4305
    [] name = "searchItems" -> 4798
    [] name = "showItem" -> 5807

\* JXATemplates.<name>(...baked): the script text, known by its template, the
\* values interpolated into it and its length
Script(name, baked) == [name |-> name, baked |-> baked, length |-> TemplateLength(name)]

\* the item the script finds by id among the items of the given types
Found(th, id, types) ==
  id.t = "string" /\ id.v \in DOMAIN th.items /\ th.items[id.v].type \in types

ItemData(th, id) ==
  Obj([id |-> id, name |-> Str(<<"name of ">> \o id.v), status |-> Str(<<th.items[id.v].status>>)])

\* if (params.completed !== undefined) status = params.completed ? 'completed' : 'open';
\* if (params.canceled !== undefined) status = params.canceled ? 'canceled' : 'open';
StatusAfterUpdate(old, p) ==
  LET afterCompleted ==
        IF Get(p, "completed") # Undefined
          THEN (IF Truthy(Get(p, "completed")) THEN "completed" ELSE "open")
          ELSE old
  IN IF Get(p, "canceled") # Undefined
       THEN (IF Truthy(Get(p, "canceled")) THEN "canceled" ELSE "open")
       ELSE afterCompleted

UpdateTypes(name) == IF name = "updateTodo" THEN {"todo"} ELSE {"project"}

\* the application after the script has run to its end; p is the params
\* object the script parsed from its argument
ThingsAfter(script, p, th) ==
  IF ~th.running THEN th
  ELSE IF script.name \in {"updateTodo", "updateProject"}
          /\ Found(th, Get(p, "id"), UpdateTypes(script.name)) THEN
    [th EXCEPT !.items[Get(p, "id").v].status = StatusAfterUpdate(@, p)]
  ELSE IF script.name \in {"createTodo", "createProject"} /\ NewId \notin DOMAIN th.items THEN
    [th EXCEPT !.items = Extend(@, NewId,
        Item(IF script.name = "createTodo" THEN "todo" ELSE "project", "open"))]
  ELSE th

ListOutputs == {Success(Arr(<<>>)), Success(Arr(<<Obj([id |-> Str(Work)])>>))}

\* the JSON values the script can print: its own returns, and the envelope's
\* error for a fault inside the body.  A lookup by id of an item that does
\* not exist ends in the template's not-found return or in the envelope's
\* error, as the automation bridge resolves the reference early or late.
ScriptOutputs(script, p, th) ==
  LET name  == script.name
      after == ThingsAfter(script, p, th)
  IN IF name = "isThingsRunning" THEN {Success(Bool(th.running)), EnvelopeFailure}
     ELSE IF ~th.running THEN {EnvelopeFailure}
     ELSE IF name \in {"updateTodo", "updateProject"} THEN
       IF Found(th, Get(p, "id"), UpdateTypes(name))
         THEN {Success(ItemData(after, Get(p, "id"))), EnvelopeFailure}
         ELSE {Failure("NotFound",
                       IF name = "updateTodo" THEN "Todo not found" ELSE "Project not found",
                       -1),
               EnvelopeFailure}
     ELSE IF name = "showItem" THEN
       IF Found(th, Get(p, "id"), {"todo", "project", "area"})
         THEN {Success(ItemData(th, Get(p, "id"))), EnvelopeFailure}
         ELSE {Failure("NotFound", "Item not found", -1), EnvelopeFailure}
     ELSE IF name \in {"createTodo", "createProject"} THEN
       {Success(Obj([id |-> Str(NewId), name |-> Get(p, "title")])), EnvelopeFailure}
     ELSE ListOutputs \cup {EnvelopeFailure}

\* everything execAsync can settle with for this command
ExecAnswers(script, params, th) ==
  ExecRejections
    \cup {Resolved(NotJSON, <<>>), Resolved(JSONStringify(EmptyObject), <<"warning">>)}
    \cup {Resolved(JSONStringify(o), <<>>) : o \in ScriptOutputs(script, JSONValue(params).v, th)}

\* the application once execAsync has settled: a script that printed a
\* success ran to its end; one that was killed or failed may have stopped
\* anywhere
ThingsAfterAnswer(script, params, th, answer) ==
  LET after == ThingsAfter(script, JSONValue(params).v, th)
  IN IF answer.kind = "resolved" /\ answer.stdout.t = "json"
          /\ Get(answer.stdout.v.v, "success") = Bool(TRUE) THEN {after}
     ELSE IF answer.kind = "rejected" THEN {th, after}
     ELSE {th}

-----------------------------------------------------------------------------
(* Specification SpecExecute: one call of executeJXA(script, params).      *)

\* script lengths around the limit
ScriptLengths == {692, maxScriptSize - 1, maxScriptSize, maxScriptSize + 1, 2 * maxScriptSize}

ExecuteScripts ==
  {[Script(n, <<>>) EXCEPT !.length = l] :
     n \in {"isThingsRunning", "getInbox", "updateTodo", "showItem"}, l \in ScriptLengths}

ExecuteParams == {<< >>, [id |-> Str(Work)], [id |-> Str(NewId), completed |-> Bool(TRUE)]}

InitExecute ==
  /\ pc = "call"
  /\ request \in [script : ExecuteScripts, params : ExecuteParams]
  /\ things \in ThingsStates
  /\ locals = << >>
  /\ executed = << >>
  /\ outcome = Pending
  /\ ValidatorIdle
  /\ MapperIdle

\* executeJXA up to its await: the size check, then the command is handed
\* to execAsync
ExecuteJXACall ==
  /\ pc = "call"
  /\ IF ScriptTooLarge(request.script)
       THEN /\ outcome' = OuterCatch(ScriptTooLargeError)
            /\ pc' = "done"
            /\ UNCHANGED executed
       ELSE /\ executed' = Append(executed, Command(request.script, Obj(request.params)))
            /\ pc' = "awaiting"
            /\ UNCHANGED outcome
  /\ UNCHANGED <<request, things, locals, validatorVars, mapperVars>>

\* executeJXA from its await on: execAsync settles
ExecuteJXASettle ==
  /\ pc = "awaiting"
  /\ \E answer \in ExecAnswers(request.script, Obj(request.params), things) :
       /\ outcome' = ExecuteJXASettled(answer)
       /\ things' \in ThingsAfterAnswer(request.script, Obj(request.params), things, answer)
       /\ executed' = Answered(executed, answer)
  /\ pc' = "done"
  /\ UNCHANGED <<request, locals, validatorVars, mapperVars>>

NextExecute == ExecuteJXACall \/ ExecuteJXASettle

SpecExecute == InitExecute /\ [][NextExecute]_vars

-----------------------------------------------------------------------------
(* ThingsExtension.executeThingsJXA, validateThingsRunning, ResponseFormatter *)

\* x.key for any value x
GetProp(x, key) == IF x.t = "object" THEN Get(x.v, key) ELSE Undefined

\* `${x}` in a template literal
ToText(x) ==
  CASE x.t = "string"    -> x.v
    [] x.t = "undefined" -> <<"undefined">>
    [] x.t = "null"      -> <<"null">>
    [] x.t = "boolean"   -> IF x.v THEN <<"true">> ELSE <<"false">>
    [] x.t = "number"    -> <<ToString(x.v)>>
    [] x.t = "array"     -> <<"array.join(',')">>
    [] OTHER             -> <<"[object Object]">>

\* x.length
Length(x) == IF x.t \in {"array", "string"} THEN Num(Len(x.v)) ELSE Undefined

\* what executeThingsJXA returns or throws, given what executeJXA did
executeThingsJXASettled(r) ==
  IF IsThrow(r) THEN r
  ELSE IF Truthy(GetProp(r.v, "success")) /\ Truthy(GetProp(r.v, "data"))
    THEN Return(GetProp(r.v, "data"))
  ELSE Throw("Error", "none",
             ToText(OrElse(GetProp(GetProp(r.v, "error"), "message"),
                           Str(<<"Unknown error occurred">>))))

\* a liveness check that looks at result.success alone
validateThingsRunningBySuccess(r) ==
  IF IsThrow(r) THEN McpError(InternalError, <<THINGS_CHECK_FAILED>>)
  ELSE IF ~Truthy(GetProp(r.v, "success")) THEN ThingsNotRunningError
  ELSE Return(Undefined)

\* what validateThingsRunning returns or throws, given what executeJXA did
validateThingsRunningSettled(r) ==
  IF IsThrow(r) THEN McpError(InternalError, <<THINGS_CHECK_FAILED>>)
  ELSE IF ~Truthy(GetProp(r.v, "success")) \/ ~Truthy(GetProp(r.v, "data"))
    THEN ThingsNotRunningError
  ELSE Return(Undefined)

createSuccessResponse(data) ==
  [content |-> <<[type |-> "text", text |-> JSONStringify(data)]>>]

-----------------------------------------------------------------------------
(* ToolHandlers.  Each handler is two halves around its one await:         *)
(* Prepare is the code up to the call of executeThingsJXA (it throws, or   *)
(* it names the script, the parameters and the locals the second half      *)
(* needs), Finish is the code after it.                                    *)

Call(template, baked, params, loc) ==
  [t |-> "call", script |-> Script(template, baked), params |-> params, locals |-> loc]

\* args.flag !== undefined ? Boolean(args.flag) : default
FlagOr(a, key, default) ==
  IF Get(a, key) # Undefined THEN Bool(Truthy(Get(a, key))) ELSE Bool(default)

RECURSIVE parseInt(_)
parseInt(digits) ==
  IF digits = <<>> THEN 0
  ELSE 10 * parseInt(SubSeq(digits, 1, Len(digits) - 1)) + DigitValue(digits[Len(digits)])

\* period.match(/^(\d+)([dwmy])$/)
PeriodMatches(s) ==
  /\ Len(s) >= 2
  /\ \A i \in 1..(Len(s) - 1) : IsDigit(s[i])
  /\ s[Len(s)] \in {"d", "w", "m", "y"}

parsePeriodToDays(value, unit) ==
  CASE unit = "d" -> value
    [] unit = "w" -> value * 7
    [] unit = "m" -> value * 30
    [] unit = "y" -> value * 365
    [] OTHER -> 7

\* addTodo and addProject from their second statement on; sp is scriptParams
CreateCall(sp, a, template) ==
     IF IsThrow(sp) THEN sp
     ELSE LET title  == OrElse(Get(sp.v, "name"), Get(sp.v, "title"))
              common == [title      |-> title,
                         notes      |-> Get(sp.v, "notes"),
                         deadline   |-> Get(sp.v, "due_date"),
                         when       |-> Get(sp.v, "activation_date"),
                         area_id    |-> Get(sp.v, "area_id"),
                         area_title |-> Get(sp.v, "area"),
                         tags       |-> Get(sp.v, "tags")]
              params ==
                IF template = "createTodo"
                  THEN Extend(Extend(Extend(common,
                         "list_id", Get(sp.v, "list_id")),
                         "list_title", Get(sp.v, "project")),
                         "checklist_items", Get(a, "checklist_items"))
                  ELSE Extend(common, "todos", Get(a, "todos"))
          IN Call(template, <<>>, params, [title |-> title])

PrepareCreate(a, template) == CreateCall(validateAndMapParameters(a, << >>), a, template)

\* updateTodo and updateProject from their second statement on
UpdateCall(sp, template, required) ==
     IF IsThrow(sp) THEN sp
     ELSE IF ~Truthy(Get(sp.v, "id")) THEN McpError(InvalidParams, <<required>>)
     ELSE LET common == [id        |-> Get(sp.v, "id"),
                         notes     |-> Get(sp.v, "notes"),
                         deadline  |-> Get(sp.v, "due_date"),
                         when      |-> Get(sp.v, "activation_date"),
                         tags      |-> Get(sp.v, "tags"),
                         completed |-> Get(sp.v, "completed"),
                         canceled  |-> Get(sp.v, "canceled")]
              params ==
                IF template = "updateTodo"
                  THEN Extend(Extend(common,
                         "title", OrElse(Get(sp.v, "title"), Get(sp.v, "new_name"))),
                         "checklist_items", Get(sp.v, "checklist_items"))
                  ELSE Extend(common, "title", Get(sp.v, "title"))
          IN Call(template, <<>>, params, [id |-> Get(sp.v, "id")])

PrepareUpdate(a, template, required) ==
  UpdateCall(validateAndMapParameters(a, << >>), template, required)

\* a handler whose one parameter is a validated text
QueryCall(validated_, template, key) ==
  IF IsThrow(validated_) THEN validated_
  ELSE Call(template, <<>>, [k \in {key} |-> validated_], [k \in {key} |-> validated_])

PrepareQuery(a, template, key) ==
  QueryCall(validateStringInput(Get(a, key), key, maxStringLength), template, key)

SearchAdvancedCall(validatedQuery, tags, a) ==
  LET filters == [tags      |-> tags,
                  completed |-> FlagOr(a, "completed", FALSE),
                  canceled  |-> FlagOr(a, "canceled", FALSE),
                  trashed   |-> FlagOr(a, "trashed", FALSE)]
  IN IF IsThrow(validatedQuery) THEN validatedQuery
     ELSE IF IsThrow(tags) THEN tags
     ELSE Call("searchAdvanced", <<>>, Extend(filters, "query", validatedQuery),
               [query |-> validatedQuery, filters |-> Obj(filters)])

PrepareSearchAdvanced(a) ==
  SearchAdvancedCall(
    validateStringInput(Get(a, "query"), "query", maxStringLength),
    IF Truthy(Get(a, "tags"))
      THEN validateArrayInput(Get(a, "tags"), "tags", maxArrayLength)
      ELSE Arr(<<>>),
    a)

PrepareLogbook(a) ==
  LET period == OrElse(Get(a, "period"), Str(<<"7", "d">>))
      limit  == OrElse(Get(a, "limit"), Num(50))
  IN IF period.t # "string" THEN
       Throw("TypeError", "none", <<"period.match is not a function">>)
     ELSE LET daysBack ==
                IF PeriodMatches(period.v)
                  THEN parsePeriodToDays(parseInt(SubSeq(period.v, 1, Len(period.v) - 1)),
                                         period.v[Len(period.v)])
                  ELSE 7
          IN Call("getLogbook", <<limit, Num(daysBack)>>, << >>, [period |-> period])

Lists == [getInbox |-> "todos", getToday |-> "todos", getUpcoming |-> "todos",
          getAnytime |-> "todos", getSomeday |-> "todos", getTrash |-> "todos",
          getTags |-> "tags"]

Prepare(method, a) ==
  CASE method = "addTodo"       -> PrepareCreate(a, "createTodo")
    [] method = "addProject"    -> PrepareCreate(a, "createProject")
    [] method = "getAreas"      -> Call("getAreas", <<FlagOr(a, "include_items", FALSE)>>, << >>, << >>)
    [] method = "getProjects"   -> Call("getProjects", <<FlagOr(a, "include_items", FALSE)>>, << >>, << >>)
    [] method = "getTodos"      ->
         Call("getTodos", <<>>, [project_uuid |-> Get(a, "project_uuid")], << >>)
    [] method \in DOMAIN Lists  -> Call(method, <<>>, << >>, << >>)
    [] method = "getLogbook"    -> PrepareLogbook(a)
    [] method = "getTaggedItems" -> PrepareQuery(a, "getTaggedItems", "tag_title")
    [] method = "searchTodos"   -> PrepareQuery(a, "searchTodos", "query")
    [] method = "searchItems"   -> PrepareQuery(a, "searchItems", "query")
    [] method = "searchAdvanced" -> PrepareSearchAdvanced(a)
    [] method = "getRecent"     ->
         LET days == OrElse(Get(a, "days"), Num(7))
         IN Call("getRecent", <<>>, [days |-> days], [days |-> days])
    [] method = "updateTodo"    -> PrepareUpdate(a, "updateTodo", "Todo ID is required for update")
    [] method = "updateProject" ->
         PrepareUpdate(a, "updateProject", "Project ID is required for update")
    [] method = "showItem"      -> PrepareQuery(a, "showItem", "id")

\* a listing that leaves out the success field
ListingWithoutSuccess(loc, key, data) ==
  Obj(Extend(Extend(loc, "count", Length(data)), key, data))

\* {success: true, ...loc, count: data.length, [key]: data}
Listing(loc, key, data) ==
  Obj(Extend(Extend(Extend(loc, "success", Bool(TRUE)), "count", Length(data)), key, data))

\* a handler without the try around its await
CatchNone(error, response) == error

\* } catch (error) { return createSuccessResponse({success: false, ...}) }
CatchAll(error, response) == Return(response)

NotFound(prefix, id, code) ==
  createSuccessResponse(Obj([success |-> Bool(FALSE),
                             message |-> Str(<<prefix>> \o ToText(id)),
                             error   |-> Str(<<code>>)]))

Updated(prefix, id) ==
  createSuccessResponse(Obj([success |-> Bool(TRUE), message |-> Str(<<prefix>> \o ToText(id))]))

Created(prefix, title, data) ==
  createSuccessResponse(Obj([success |-> Bool(TRUE),
                             message |-> Str(<<prefix>> \o ToText(title)),
                             id      |-> GetProp(data, "id")]))

\* the handler after its await; r is what executeThingsJXA returned or threw
Finish(method, loc, r) ==
  CASE method = "updateTodo" ->
         IF IsThrow(r) THEN CatchAll(r, NotFound("To-do not found: ", loc.id, "TODO_NOT_FOUND"))
         ELSE Return(Updated("Updated to-do: ", loc.id))
    [] method = "updateProject" ->
         IF IsThrow(r) THEN CatchAll(r, NotFound("Project not found: ", loc.id, "PROJECT_NOT_FOUND"))
         ELSE Return(Updated("Updated project: ", loc.id))
    [] method = "showItem" ->
         IF IsThrow(r) THEN CatchAll(r, NotFound("Item not found: ", loc.id, "ITEM_NOT_FOUND"))
         ELSE Return(createSuccessResponse(
                Obj([success |-> Bool(TRUE), id |-> loc.id, item |-> r.v])))
    [] IsThrow(r) /\ method \notin {"updateTodo", "updateProject", "showItem"} -> r
    [] ~IsThrow(r) /\ method = "addTodo" ->
         Return(Created("Created to-do: ", loc.title, r.v))
    [] ~IsThrow(r) /\ method = "addProject" ->
         Return(Created("Created project: ", loc.title, r.v))
    [] ~IsThrow(r) /\ method = "getAreas" ->
         Return(createSuccessResponse(Listing(loc, "areas", r.v)))
    [] ~IsThrow(r) /\ method = "getProjects" ->
         Return(createSuccessResponse(Listing(loc, "projects", r.v)))
    [] ~IsThrow(r) /\ method \in DOMAIN Lists ->
         Return(createSuccessResponse(Listing(loc, Lists[method], r.v)))
    [] ~IsThrow(r) /\ method \in {"getTodos", "getLogbook", "searchTodos"} ->
         Return(createSuccessResponse(Listing(loc, "todos", r.v)))
    [] ~IsThrow(r) /\ method \in {"getTaggedItems", "getRecent"} ->
         Return(createSuccessResponse(
           Listing(IF method = "getTaggedItems" THEN [tag |-> loc.tag_title] ELSE loc,
                   "items", r.v)))
    [] ~IsThrow(r) /\ method \in {"searchAdvanced", "searchItems"} ->
         Return(createSuccessResponse(Listing(loc, "results", r.v)))

-----------------------------------------------------------------------------
(* The dispatcher: the CallTool request handler of setupToolHandlers *)

HANDLER_METHOD_MAP ==
  [add_todo |-> "addTodo", add_project |-> "addProject", get_areas |-> "getAreas",
   get_todos |-> "getTodos", get_projects |-> "getProjects", get_inbox |-> "getInbox",
   get_today |-> "getToday", get_upcoming |-> "getUpcoming", get_anytime |-> "getAnytime",
   get_someday |-> "getSomeday", get_logbook |-> "getLogbook", get_trash |-> "getTrash",
   get_tags |-> "getTags", get_tagged_items |-> "getTaggedItems",
   search_todos |-> "searchTodos", search_advanced |-> "searchAdvanced",
   get_recent |-> "getRecent", update_todo |-> "updateTodo",
   update_project |-> "updateProject", show_item |-> "showItem",
   search_items |-> "searchItems"]

\* getHandlerMethod(toolName)
getHandlerMethod(toolName) ==
  IF toolName \in DOMAIN HANDLER_METHOD_MAP THEN Str(<<HANDLER_METHOD_MAP[toolName]>>) ELSE Null

RequestTooLarge(req) == req.size > maxRequestSize

\* } catch (error) { if (error instanceof McpError) throw error; throw new McpError(...) }
DispatcherCatch(error) ==
  IF error.class = "McpError" THEN error
  ELSE McpError(InternalError, <<"Tool execution failed: ">> \o error.message)

\* what the dispatcher settles with when the body of its try ends with r
Settle(r) == IF IsThrow(r) THEN DispatcherCatch(r) ELSE r

\* the handler's second half, applied to what executeJXA did
HandlerSettled(method, loc, r) == Finish(method, loc, executeThingsJXASettled(r))

-----------------------------------------------------------------------------
(* Specification Spec: one tools/call request, from its arrival to the     *)
(* response or the protocol error.                                         *)

Missing      == <<"z", "z", "z">>
MissingPadded == <<" ", "z", "z", "z", " ">>
Script7d     == <<"7", "d", ";">>
TwoWeeks     == <<"2", "w">>
Injected     == <<"1", ")", ";", "x", "(">>

IdArguments == {<< >>} \cup {[id |-> v] :
  v \in {Str(Work), Str(Missing), Str(MissingPadded), Str(Blank), Str(Osascript), Str(<<>>), Num(7)}}

UpdateArguments ==
  IdArguments
    \cup {[id |-> Str(i), completed |-> Bool(c)] : i \in {Work, Missing}, c \in BOOLEAN}
    \cup {[id |-> Str(i), completed |-> Bool(c), canceled |-> Bool(d)] :
            i \in {Work, Missing}, c \in BOOLEAN, d \in BOOLEAN}
    \cup {[id |-> Str(i), title |-> Str(BuyMilk)] : i \in {Work, Missing}}
    \cup {[id |-> Str(i), notes |-> Str(Osascript)] : i \in {Work, Missing}}
    \cup {[id |-> Str(i), when |-> Str(Month13)] : i \in {Work, Missing}}

CreateArguments == {
  << >>,
  [title |-> Str(BuyMilkPadded)],
  [name |-> Str(OldTask)],
  [title |-> Str(Blank)],
  [title |-> Str(Osascript)],
  [title |-> Str(BuyMilk), checklist_items |-> Arr(<<Str(Osascript)>>)],
  [title |-> Str(BuyMilk), todos |-> Arr(<<Str(Osascript)>>)],
  [title |-> Str(BuyMilk), tags |-> Arr(<<Str(UrgentPadded)>>), deadline |-> Str(Date1)],
  [title |-> Str(BuyMilk), tags |-> Str(NotAnArray)] }

QueryArguments(key) == {<< >>} \cup {[k \in {key} |-> v] :
  v \in {Str(Work), Str(UrgentPadded), Str(Blank), Str(Osascript), Str(<<>>), Num(7)}}

ListArguments == {<< >>, [include_items |-> Bool(TRUE)], [include_items |-> Str(<<>>)]}

LogbookArguments == {
  << >>,
  [period |-> Str(TwoWeeks)],
  [period |-> Str(Script7d)],
  [period |-> Num(14)],
  [limit |-> Num(10)],
  [limit |-> Str(Injected)],
  [period |-> Str(TwoWeeks), limit |-> Num(0)] }

ArgumentsOf(name) ==
  CASE name \in {"update_todo", "update_project"} -> UpdateArguments
    [] name = "show_item" -> IdArguments
    [] name \in {"add_todo", "add_project"} -> CreateArguments
    [] name \in {"search_todos", "search_items"} -> QueryArguments("query")
    [] name = "search_advanced" ->
         QueryArguments("query")
           \cup {[query |-> Str(Work), tags |-> t] :
                   t \in {Arr(<<Str(UrgentPadded)>>), Str(NotAnArray), Str(<<>>)}}
           \cup {[query |-> Str(Work), completed |-> Bool(TRUE)]}
    [] name = "get_tagged_items" -> QueryArguments("tag_title")
    [] name = "get_logbook" -> LogbookArguments
    [] name = "get_recent" -> {<< >>, [days |-> Num(3)], [days |-> Num(0)], [days |-> Str(Injected)]}
    [] name = "get_todos" -> {<< >>, [project_uuid |-> Str(Work)], [project_uuid |-> Str(Osascript)]}
    [] OTHER -> ListArguments

UnknownTools == {"delete_todo", "updateTodo"}
ToolNames    == DOMAIN HANDLER_METHOD_MAP \cup UnknownTools

\* JSON.stringify(request).length: the size of an ordinary request, and
\* sizes at and beyond the limit
SmallRequest == 180
RequestSizes == {SmallRequest, maxRequestSize, maxRequestSize + 1}

Init ==
  /\ pc = "start"
  /\ \E n \in ToolNames, z \in RequestSizes : \E a \in ArgumentsOf(n) :
       request = [name |-> n, arguments |-> a, size |-> z]
  /\ things \in ThingsStates
  /\ locals = << >>
  /\ executed = << >>
  /\ outcome = Pending
  /\ ValidatorIdle
  /\ MapperIdle

\* the handler up to its first await: the request size check, then
\* validateThingsRunning up to the await of executeJXA
CallTool ==
  /\ pc = "start"
  /\ IF RequestTooLarge(request) THEN
       /\ outcome' = Settle(McpError(InvalidParams, <<"Request too large: ", "requestSize", " bytes">>))
       /\ pc' = "done"
       /\ UNCHANGED executed
     ELSE IF ScriptTooLarge(Script("isThingsRunning", <<>>)) THEN
       /\ outcome' = Settle(validateThingsRunningSettled(OuterCatch(ScriptTooLargeError)))
       /\ pc' = "done"
       /\ UNCHANGED executed
     ELSE
       /\ executed' = Append(executed, Command(Script("isThingsRunning", <<>>), EmptyObject))
       /\ pc' = "checking"
       /\ UNCHANGED outcome
  /\ UNCHANGED <<request, things, locals, validatorVars, mapperVars>>

\* the handler from its call to its await: it throws, or it answers at
\* once because executeJXA refused the script, or it names the command to run
Handle(method, prep) ==
  IF IsThrow(prep) THEN Settle(prep)
  ELSE IF ScriptTooLarge(prep.script)
    THEN Settle(HandlerSettled(method, prep.locals, OuterCatch(ScriptTooLargeError)))
  ELSE [prep EXCEPT !.locals = [method |-> method, script |-> prep.script,
                                params |-> prep.params, locals |-> prep.locals]]

\* the dispatcher after validateThingsRunning: check is what it returned or
\* threw, method what getHandlerMethod found
Route(check, method, req) ==
  IF IsThrow(check) THEN Settle(check)
  ELSE IF ~Truthy(method)
    THEN Settle(McpError(MethodNotFound, <<"Unknown tool: ", req.name>>))
  ELSE Handle(ToText(method)[1], Prepare(ToText(method)[1], req.arguments))

\* a dispatcher that runs the liveness script a second time when the call
\* would fail after the first
ContinueRetrying(next, log) ==
  IF next.t = "call" THEN
    /\ executed' = Append(log, Command(next.script, Obj(next.params)))
    /\ locals' = next.locals
    /\ pc' = "executing"
    /\ UNCHANGED outcome
  ELSE IF next.t = "throw" /\ Len(log) = 1 THEN
    /\ executed' = Append(log, Command(Script("isThingsRunning", <<>>), EmptyObject))
    /\ pc' = "checking"
    /\ UNCHANGED <<outcome, locals>>
  ELSE
    /\ outcome' = next
    /\ pc' = "done"
    /\ executed' = log
    /\ UNCHANGED locals

\* the request goes on to its script, or ends
Continue(next, log) ==
  IF next.t = "call" THEN
    /\ executed' = Append(log, Command(next.script, Obj(next.params)))
    /\ locals' = next.locals
    /\ pc' = "executing"
    /\ UNCHANGED outcome
  ELSE
    /\ outcome' = next
    /\ pc' = "done"
    /\ executed' = log
    /\ UNCHANGED locals

\* the liveness script has been answered: the rest of validateThingsRunning,
\* the lookup of the handler, and the handler up to the await of its script
ThingsCheckSettles ==
  /\ pc = "checking"
  /\ \E answer \in ExecAnswers(Script("isThingsRunning", <<>>), EmptyObject, things) :
       Continue(Route(validateThingsRunningSettled(ExecuteJXASettled(answer)),
                      getHandlerMethod(request.name), request),
                Answered(executed, answer))
  /\ UNCHANGED <<request, things, validatorVars, mapperVars>>

\* the operation's script has been answered: the rest of executeJXA and of
\* executeThingsJXA, the rest of the handler, and the dispatcher's catch
OperationSettles ==
  /\ pc = "executing"
  /\ \E answer \in ExecAnswers(locals.script, Obj(locals.params), things) :
       /\ outcome' = Settle(HandlerSettled(locals.method, locals.locals, ExecuteJXASettled(answer)))
       /\ things' \in ThingsAfterAnswer(locals.script, Obj(locals.params), things, answer)
       /\ executed' = Answered(executed, answer)
  /\ pc' = "done"
  /\ UNCHANGED <<request, locals, validatorVars, mapperVars>>

Next == CallTool \/ ThingsCheckSettles \/ OperationSettles

Spec == Init /\ [][Next]_vars

-----------------------------------------------------------------------------
(* Claims C8 and C9, on the dispatcher *)

NotFoundCodes == [update_todo    |-> "TODO_NOT_FOUND",
                  update_project |-> "PROJECT_NOT_FOUND",
                  show_item      |-> "ITEM_NOT_FOUND"]

\* the id the handler looks up: the id argument, validated
LookedUpId == validateStringInput(Get(request.arguments, "id"), "id", maxStringLength)

\* the call reached the handler of one of the three operations with
\* arguments that passed validation (so the handler's script was handed to
\* the executor), and its id is well formed (a text that is not blank and
\* passes validateStringInput) and names no item of Things
C8_Input ==
  /\ request.name \in DOMAIN NotFoundCodes
  /\ Len(executed) = 2
  /\ ~IsThrow(LookedUpId)
  /\ Len(LookedUpId.v) > 0
  /\ LookedUpId.v \notin DOMAIN things.items

\* C8: update_todo, update_project and show_item, called with a well-formed
\* id that names no item of the target application, return a response whose
\* JSON body is {success: false, error: TODO_NOT_FOUND | PROJECT_NOT_FOUND |
\* ITEM_NOT_FOUND, message} with a message that contains the id; nothing is
\* thrown.
C8_NotFoundSoftFailure ==
  (pc = "done" /\ C8_Input) =>
    /\ outcome.t = "return"
    /\ Len(outcome.v.content) = 1
    /\ LET text == outcome.v.content[1].text
       IN /\ text.t = "json"
          /\ DOMAIN text.v.v = {"success", "error", "message"}
          /\ text.v.v.success = Bool(FALSE)
          /\ text.v.v.error = Str(<<NotFoundCodes[request.name]>>)
          /\ text.v.v.message.t = "string"
          /\ Contains(text.v.v.message.v, LookedUpId.v)

\* update_todo for the id "zzz", which Things does not have, answered by the
\* script's own not-found return
C8_Witness ==
  /\ pc = "done"
  /\ C8_Input
  /\ request.name = "update_todo"
  /\ LookedUpId = Str(Missing)
  /\ executed[2].answer.kind = "resolved"
  /\ executed[2].answer.stdout =
       JSONStringify(Failure("NotFound", "Todo not found", -1))
  /\ outcome = Return(NotFound("To-do not found: ", Str(Missing), "TODO_NOT_FOUND"))

\* the execution of a script failed: by timeout, by an exit status other
\* than 0, or by output that is not JSON
ExecutionFailed(answer) ==
  \/ answer.kind = "rejected" /\ answer.cause \in {"timeout", "exit"}
  \/ answer.kind = "resolved" /\ answer.stderr = <<>> /\ answer.stdout.t = "text"

\* C9: for every operation, a script execution that fails by timeout, by
\* non-zero exit or by non-JSON output makes the call fail with a protocol
\* error of kind InternalError, never a not-found soft failure or a success.
C9_ExecutionFailureIsInternalError ==
  (pc = "done" /\ executed # <<>> /\ ExecutionFailed(executed[Len(executed)].answer)) =>
    /\ IsThrow(outcome)
    /\ outcome.class = "McpError"
    /\ outcome.code = InternalError

-----------------------------------------------------------------------------
(* Claim C10 *)

\* C10: when the script text is longer than maxScriptSize, executeJXA fails
\* with an error of kind InvalidParams and the executor is never invoked.
C10_OversizedScript ==
  (pc = "done" /\ request.script.length > maxScriptSize) =>
    /\ IsThrow(outcome)
    /\ outcome.code = InvalidParams
    /\ executed = << >>

-----------------------------------------------------------------------------
(* Claim C11 *)

\* the one command of the call was answered with this cause
AnsweredBy(causes) ==
  /\ pc = "done"
  /\ executed # << >>
  /\ executed[1].answer.cause \in causes

\* C11: an execution that exceeds the configured timeout makes executeJXA
\* fail with InternalError and the message 'JXA execution timed out', and no
\* other execution failure (non-zero exit, overflow of the output buffer,
\* output on stderr, output that is not JSON) is given that message.
C11_TimeoutIsDistinct ==
  /\ AnsweredBy({"timeout"}) => outcome = McpError(InternalError, <<JXA_TIMEOUT>>)
  /\ (AnsweredBy({"exit", "maxBuffer", "exit0"}) /\ IsThrow(outcome)) =>
       (outcome.code = InternalError /\ outcome.message # <<JXA_TIMEOUT>>)

-----------------------------------------------------------------------------
(* Claim C12 *)

\* the first command of the call has been answered
FirstAnswered == executed # << >> /\ "kind" \in DOMAIN executed[1].answer

\* the liveness script printed {success: true, data: false}
NotRunningReported ==
  /\ FirstAnswered
  /\ executed[1].script.name = "isThingsRunning"
  /\ executed[1].answer.kind = "resolved"
  /\ executed[1].answer.stderr = << >>
  /\ executed[1].answer.stdout = JSONStringify(Success(Bool(FALSE)))

\* the error the caller receives for a target that is not running
NotRunningFailure ==
  McpError(InternalError,
           <<"Tool execution failed: ",
             "Things 3 is not running. Please launch Things 3 and try again.">>)

\* C12: in every call the liveness script is the first command handed to the
\* executor and the only one of its kind; when it reports that Things is not
\* running, the call fails with the 'Things 3 is not running' error, which
\* no other failure produces, and no operation script is built or executed.
C12_LivenessFirst ==
  /\ \A i \in DOMAIN executed : (executed[i].script.name = "isThingsRunning") <=> (i = 1)
  /\ NotRunningReported =>
       /\ pc = "done"
       /\ outcome = NotRunningFailure
       /\ Len(executed) = 1
       /\ locals = << >>
  /\ (pc = "done" /\ outcome = NotRunningFailure) => NotRunningReported

\* add_todo while Things is not running
C12_Witness ==
  /\ pc = "done"
  /\ NotRunningReported
  /\ ~things.running
  /\ request.name = "add_todo"
  /\ request.arguments = [title |-> Str(BuyMilkPadded)]
  /\ outcome = NotRunningFailure

-----------------------------------------------------------------------------
(* Claim C13 *)

\* the methods class ToolHandlers defines
HandlerMethods == {
  "addTodo", "addProject", "getAreas", "getTodos", "getProjects", "getInbox",
  "getToday", "getUpcoming", "getAnytime", "getSomeday", "getLogbook", "getTrash",
  "getTags", "getTaggedItems", "searchTodos", "searchAdvanced", "getRecent",
  "updateTodo", "updateProject", "showItem", "searchItems" }

\* C13: the handler table has 21 names and each resolves to a method of
\* ToolHandlers; a call (of a size within the limit) whose name is not one
\* of them fails with MethodNotFound, whatever the state of Things.
C13_UnknownName ==
  /\ Cardinality(DOMAIN HANDLER_METHOD_MAP) = 21
  /\ \A n \in DOMAIN HANDLER_METHOD_MAP :
       getHandlerMethod(n).t = "string" /\ getHandlerMethod(n).v[1] \in HandlerMethods
  /\ (pc = "done" /\ ~RequestTooLarge(request) /\ request.name \notin DOMAIN HANDLER_METHOD_MAP) =>
       (IsThrow(outcome) /\ outcome.code = MethodNotFound)

-----------------------------------------------------------------------------
(* Claim C14 *)

TextKeys   == {"title", "name", "id", "area", "area_title", "area_id", "project",
               "list_title", "list_id", "heading", "query", "tag_title",
               "project_uuid", "period"}
DateKeys   == {"when", "deadline", "due_date"}
ArrayKeys  == {"tags", "checklist_items", "todos"}
NumberKeys == {"limit", "days"}

\* a value that is not a text, is too long, or holds a deny-listed construct
BadText(v, cap) ==
  \/ v.t # "string"
  \/ Len(v.v) > cap
  \/ \E p \in DOMAIN dangerousPatterns : RegexTest(dangerousPatterns[p], v.v)

\* the argument under key k fails validation: wrong type, too long,
\* dangerous pattern or bad date
BadArgument(k, v) ==
  CASE k \in TextKeys   -> BadText(v, maxStringLength)
    [] k = "notes"      -> BadText(v, maxNotesLength)
    [] k \in DateKeys   -> IsThrow(validateDateInput(v, k))
    [] k \in ArrayKeys  ->
         \/ v.t # "array"
         \/ Len(v.v) > maxArrayLength
         \/ \E i \in DOMAIN v.v : BadText(v.v[i], maxItemLength)
    [] k \in NumberKeys -> v.t # "number"
    [] OTHER -> FALSE

\* the call reached a handler, and one of its arguments fails validation or
\* its required id is missing
C14_Input ==
  /\ request.name \in DOMAIN HANDLER_METHOD_MAP
  /\ ~RequestTooLarge(request)
  /\ \/ \E k \in DOMAIN request.arguments : BadArgument(k, request.arguments[k])
     \/ /\ request.name \in {"update_todo", "update_project", "show_item"}
        /\ "id" \notin DOMAIN request.arguments

\* the liveness check of the call passed
ThingsCheckPassed ==
  /\ FirstAnswered
  /\ executed[1].answer.kind = "resolved"
  /\ executed[1].answer.stderr = << >>
  /\ executed[1].answer.stdout = JSONStringify(Success(Bool(TRUE)))

\* C14: for every operation, when an argument of the call fails validation
\* (wrong type, too long, dangerous pattern, bad date, missing required id),
\* the call fails with InvalidParams before the operation's script is
\* generated: the executor is never handed the operation's script.
C14_InvalidArgumentsStopTheCall ==
  C14_Input =>
    /\ Len(executed) <= 1
    /\ locals = << >>
    /\ (pc = "done" /\ ThingsCheckPassed) =>
         (IsThrow(outcome) /\ outcome.code = InvalidParams)

-----------------------------------------------------------------------------
(* Claim C15 *)

\* the static flags a template takes when it is generated
FlagKeys == {"include_items"}

SameFlags(a, b) == \A k \in FlagKeys : Get(a, k) = Get(b, k)

\* C15: the script text of an operation does not depend on the caller's
\* arguments other than the static flags: whenever an operation script is
\* handed to the executor, every other call of the same operation whose
\* arguments agree on the flags and pass validation generates the same
\* script text.
C15_ScriptTextIndependentOfArguments ==
  pc = "executing" =>
    \A b \in ArgumentsOf(request.name) :
      (SameFlags(request.arguments, b) /\ Prepare(locals.method, b).t = "call") =>
        Prepare(locals.method, b).script = locals.script

-----------------------------------------------------------------------------
(* Claim C16 *)

\* C16: every response a handler returns, on the success path and on the
\* not-found path, is a content list of one element of type text whose text
\* parses as JSON to an object with a boolean success field.
C16_ResponseShape ==
  outcome.t = "return" =>
    /\ DOMAIN outcome.v = {"content"}
    /\ Len(outcome.v.content) = 1
    /\ outcome.v.content[1].type = "text"
    /\ LET parsed == JSONParse(outcome.v.content[1].text)
       IN /\ ~IsThrow(parsed)
          /\ parsed.v.t = "object"
          /\ Get(parsed.v.v, "success").t = "boolean"

\* get_inbox answered with a list of one to-do
C16_Witness ==
  /\ pc = "done"
  /\ request.name = "get_inbox"
  /\ outcome = Return(createSuccessResponse(
       Obj([success |-> Bool(TRUE), count |-> Num(1),
            todos |-> Arr(<<Obj([id |-> Str(Work)])>>)])))

-----------------------------------------------------------------------------
(* JSON texts, character by character.  JSONStringify(x) stands for the    *)
(* text JSON.stringify(x) writes; Characters gives that text as the        *)
(* sequence of its characters and ParseJSON reads such a sequence the way  *)
(* JSON.parse does.  A property name is kept as one element of the text.   *)

DigitChars == <<"0", "1", "2", "3", "4", "5", "6", "7", "8", "9">>

RECURSIVE NatChars(_)
NatChars(n) ==
  IF n < 10 THEN <<DigitChars[n + 1]>>
  ELSE NatChars(n \div 10) \o <<DigitChars[(n % 10) + 1]>>

NumberChars(n) == IF n < 0 THEN <<"-">> \o NatChars(0 - n) ELSE NatChars(n)

\* a character of a string written without any escape
EscapeNothing(c) == <<c>>

\* a character of a string as JSON.stringify writes it
Escape(c) ==
  CASE c = "\"" -> <<"\\", "\"">>
    [] c = "\\" -> <<"\\", "\\">>
    [] c = "\n" -> <<"\\", "n">>
    [] c = "\t" -> <<"\\", "t">>
    [] OTHER    -> <<c>>

RECURSIVE StringChars(_)
StringChars(s) == IF s = <<>> THEN <<>> ELSE Escape(Head(s)) \o StringChars(Tail(s))

RECURSIVE Serialize(_), SerializeElements(_), SerializeMembers(_, _)
Serialize(x) ==
  CASE x.t = "null"    -> <<"n", "u", "l", "l">>
    [] x.t = "boolean" -> IF x.v THEN <<"t", "r", "u", "e">> ELSE <<"f", "a", "l", "s", "e">>
    [] x.t = "number"  -> NumberChars(x.v)
    [] x.t = "string"  -> <<"\"">> \o StringChars(x.v) \o <<"\"">>
    [] x.t = "array"   -> <<"[">> \o SerializeElements(x.v) \o <<"]">>
    [] x.t = "object"  -> <<"{">> \o SerializeMembers(x.v, DOMAIN x.v) \o <<"}">>

SerializeElements(a) ==
  IF a = <<>> THEN <<>>
  ELSE Serialize(Head(a)) \o
       (IF Tail(a) = <<>> THEN <<>> ELSE <<",">> \o SerializeElements(Tail(a)))

SerializeMembers(f, keys) ==
  IF keys = {} THEN <<>>
  ELSE LET k == CHOOSE j \in keys : TRUE
       IN <<"\"", k, "\"", ":">> \o Serialize(f[k]) \o
          (IF keys = {k} THEN <<>> ELSE <<",">> \o SerializeMembers(f, keys \ {k}))

\* the characters of a text
Characters(text) == IF text.t = "json" THEN Serialize(text.v) ELSE text.v

NoParse == [ok |-> FALSE, v |-> Null, next |-> 0]
Parsed(v, next) == [ok |-> TRUE, v |-> v, next |-> next]

At(s, i) == IF i \in DOMAIN s THEN s[i] ELSE "end"

Literal(s, i, word, v) ==
  IF i + Len(word) - 1 <= Len(s) /\ SubSeq(s, i, i + Len(word) - 1) = word
    THEN Parsed(v, i + Len(word))
    ELSE NoParse

RECURSIVE ParseDigits(_, _, _)
ParseDigits(s, i, n) ==
  IF IsDigit(At(s, i)) THEN ParseDigits(s, i + 1, 10 * n + DigitValue(s[i]))
  ELSE Parsed(Num(n), i)

ParseNumber(s, i) ==
  IF At(s, i) = "-" THEN
    IF IsDigit(At(s, i + 1))
      THEN LET r == ParseDigits(s, i + 1, 0) IN Parsed(Num(0 - r.v.v), r.next)
      ELSE NoParse
  ELSE ParseDigits(s, i, 0)

Unescaped == [n |-> "\n", t |-> "\t"]

\* the characters of a string up to its closing quote
RECURSIVE ParseChars(_, _, _)
ParseChars(s, i, acc) ==
  IF i > Len(s) THEN NoParse
  ELSE IF s[i] = "\"" THEN Parsed(Str(acc), i + 1)
  ELSE IF s[i] = "\\" THEN
    IF At(s, i + 1) \in {"\"", "\\"} THEN ParseChars(s, i + 2, Append(acc, s[i + 1]))
    ELSE IF At(s, i + 1) \in DOMAIN Unescaped
      THEN ParseChars(s, i + 2, Append(acc, Unescaped[s[i + 1]]))
    ELSE NoParse
  ELSE IF s[i] \in {"\n", "\t"} THEN NoParse
  ELSE ParseChars(s, i + 1, Append(acc, s[i]))

RECURSIVE ParseValue(_, _), ParseElements(_, _, _), ParseMembers(_, _, _)
ParseValue(s, i) ==
  LET c == At(s, i)
  IN CASE c = "n"  -> Literal(s, i, <<"n", "u", "l", "l">>, Null)
       [] c = "t"  -> Literal(s, i, <<"t", "r", "u", "e">>, Bool(TRUE))
       [] c = "f"  -> Literal(s, i, <<"f", "a", "l", "s", "e">>, Bool(FALSE))
       [] c = "\"" -> ParseChars(s, i + 1, <<>>)
       [] c = "["  -> IF At(s, i + 1) = "]" THEN Parsed(Arr(<<>>), i + 2)
                      ELSE ParseElements(s, i + 1, <<>>)
       [] c = "{"  -> IF At(s, i + 1) = "}" THEN Parsed(EmptyObject, i + 2)
                      ELSE ParseMembers(s, i + 1, << >>)
       [] c = "-" \/ IsDigit(c) -> ParseNumber(s, i)
       [] OTHER    -> NoParse

ParseElements(s, i, acc) ==
  LET r == ParseValue(s, i)
  IN IF ~r.ok THEN NoParse
     ELSE IF At(s, r.next) = "," THEN ParseElements(s, r.next + 1, Append(acc, r.v))
     ELSE IF At(s, r.next) = "]" THEN Parsed(Arr(Append(acc, r.v)), r.next + 1)
     ELSE NoParse

ParseMembers(s, i, acc) ==
  IF ~(At(s, i) = "\"" /\ At(s, i + 2) = "\"" /\ At(s, i + 3) = ":") THEN NoParse
  ELSE LET r == ParseValue(s, i + 4)
       IN IF ~r.ok THEN NoParse
          ELSE IF At(s, r.next) = "," THEN ParseMembers(s, r.next + 1, Extend(acc, s[i + 1], r.v))
          ELSE IF At(s, r.next) = "}" THEN Parsed(Obj(Extend(acc, s[i + 1], r.v)), r.next + 1)
          ELSE NoParse

\* JSON.parse(characters)
ParseJSON(s) ==
  LET r == ParseValue(s, 1)
  IN IF r.ok /\ r.next = Len(s) + 1 THEN Return(r.v)
     ELSE Throw("SyntaxError", "none", <<"Unexpected token in JSON">>)

-----------------------------------------------------------------------------
(* ResponseFormatter.createErrorResponse *)

UNKNOWN_ERROR == <<"U", "N", "K", "N", "O", "W", "N", "_", "E", "R", "R", "O", "R">>

\* createErrorResponse(message, code = 'UNKNOWN_ERROR'): the default is taken
\* when code is undefined
createErrorResponse(message, code) ==
  [content |-> <<[type |-> "text",
                  text |-> JSONStringify(
                    Obj([success |-> Bool(FALSE),
                         error   |-> Obj([message |-> message,
                                          code    |-> IF code = Undefined
                                                        THEN Str(UNKNOWN_ERROR)
                                                        ELSE code])]))]>>]

-----------------------------------------------------------------------------
(* Specification SpecFormat: one call of createSuccessResponse or of       *)
(* createErrorResponse, and the reading of the response's text.            *)

Quoted    == <<"s", "a", "y", " ", "\"", "h", "i", "\"">>
Backslash == <<"C", ":", "\\", "t">>
TwoLines  == <<"a", "\n", "b", "\t">>
TestId    == <<"t", "e", "s", "t", "-", "1", "2", "3">>
TestError == <<"T", "E", "S", "T", "_", "E", "R", "R", "O", "R">>

FormatTexts == {<<>>, BuyMilk, Quoted, Backslash, TwoLines, TestId,
                <<"n", "u", "l", "l">>, <<"1", "2">>, <<",">>, <<"}", "]">>}

FormatScalars ==
  {Null, Bool(TRUE), Bool(FALSE), Num(0), Num(7), Num(-12), Num(100)}
    \cup {Str(s) : s \in FormatTexts}

FormatElements == {Null, Bool(FALSE), Num(-12), Str(Quoted), Str(<<",">>), Undefined}

FormatArrays ==
  {Arr(<<>>)} \cup {Arr(<<x>>) : x \in FormatElements}
    \cup {Arr(<<x, y>>) : x \in FormatElements, y \in FormatElements}

FormatObjects ==
  {EmptyObject}
    \cup {Obj([id |-> x]) : x \in FormatElements}
    \cup {Obj([id |-> x, name |-> y]) : x \in {Str(TestId), Undefined}, y \in FormatElements}
    \cup {Obj([todos |-> Arr(<<Obj([id |-> Str(TestId), name |-> y])>>)]) : y \in FormatElements}
    \cup {Obj([success |-> Bool(TRUE), count |-> Num(2), items |-> a]) : a \in FormatArrays}

FormatData == FormatScalars \cup FormatArrays \cup FormatObjects

FormatRequests ==
  {[function |-> "createSuccessResponse", data |-> d] : d \in FormatData}
    \cup {[function |-> "createErrorResponse", message |-> Str(m), code |-> c] :
            m \in {BuyMilk, Quoted, TwoLines, <<>>},
            c \in {Undefined, Null, Str(TestError), Str(Quoted), Str(<<>>)}}

InitFormat ==
  /\ pc = "format"
  /\ request \in FormatRequests
  /\ things = << >>
  /\ locals = << >>
  /\ executed = << >>
  /\ outcome = Pending
  /\ ValidatorIdle
  /\ MapperIdle

CreateSuccessResponse ==
  /\ pc = "format"
  /\ request.function = "createSuccessResponse"
  /\ outcome' = Return(createSuccessResponse(request.data))
  /\ pc' = "formatted"
  /\ UNCHANGED <<request, things, locals, executed, validatorVars, mapperVars>>

CreateErrorResponse ==
  /\ pc = "format"
  /\ request.function = "createErrorResponse"
  /\ outcome' = Return(createErrorResponse(request.message, request.code))
  /\ pc' = "formatted"
  /\ UNCHANGED <<request, things, locals, executed, validatorVars, mapperVars>>

\* the reader of the response: JSON.parse(result.content[0].text)
ParseText ==
  /\ pc = "formatted"
  /\ locals' = ParseJSON(Characters(outcome.v.content[1].text))
  /\ pc' = "parsed"
  /\ UNCHANGED <<request, things, executed, outcome, validatorVars, mapperVars>>

NextFormat == CreateSuccessResponse \/ CreateErrorResponse \/ ParseText

SpecFormat == InitFormat /\ [][NextFormat]_vars

-----------------------------------------------------------------------------
(* Claim C17 *)

\* a value JSON can carry: no undefined anywhere in it
RECURSIVE IsJSON(_)
IsJSON(x) ==
  CASE x.t = "undefined" -> FALSE
    [] x.t = "array"     -> \A i \in DOMAIN x.v : IsJSON(x.v[i])
    [] x.t = "object"    -> \A k \in DOMAIN x.v : IsJSON(x.v[k])
    [] OTHER             -> TRUE

\* C17: for JSON-serializable data, createSuccessResponse(data) has exactly
\* one content element, of type text, whose text parses back to a value
\* equal to data; createErrorResponse(message, code) parses back to
\* {success: false, error: {message, code}}, with code 'UNKNOWN_ERROR' when
\* no code is given.
C17_RoundTrip ==
  pc = "parsed" =>
    /\ Len(outcome.v.content) = 1
    /\ outcome.v.content[1].type = "text"
    /\ locals = JSONParse(outcome.v.content[1].text)
    /\ (request.function = "createSuccessResponse" /\ IsJSON(request.data)) =>
         locals = Return(request.data)
    /\ (request.function = "createErrorResponse" /\ request.code # Undefined) =>
         locals = Return(Obj([success |-> Bool(FALSE),
                              error   |-> Obj([message |-> request.message,
                                               code    |-> request.code])]))
    /\ (request.function = "createErrorResponse" /\ request.code = Undefined) =>
         locals = Return(Obj([success |-> Bool(FALSE),
                              error   |-> Obj([message |-> request.message,
                                               code    |-> Str(UNKNOWN_ERROR)])]))

\* a to-do list whose name holds quotation marks, written and read back
C17_Witness ==
  /\ pc = "parsed"
  /\ request.function = "createSuccessResponse"
  /\ request.data = Obj([todos |-> Arr(<<Obj([id |-> Str(TestId), name |-> Str(Quoted)])>>)])
  /\ locals = Return(request.data)

-----------------------------------------------------------------------------
(* Specification SpecNormalize: one call of executeJXA, of executeThingsJXA *)
(* or of validateThingsRunning, with the executor's output drawn from the  *)
(* envelopes a script can print.                                           *)

EnvelopeData == {Undefined, Null, Bool(FALSE), Num(0), Str(<<>>),
                 Bool(TRUE), Num(3), Str(Work), Arr(<<>>),
                 Arr(<<Obj([id |-> Str(Work)])>>), Obj([id |-> Str(Work)])}

EnvelopeErrors == {Undefined,
                   Obj([type |-> Str(<<"NotFound">>), message |-> Str(<<"Todo not found">>),
                        code |-> Num(-1)]),
                   Obj([type |-> Str(<<"Error">>), message |-> Str(<<"Can't get object.">>),
                        code |-> Num(-1728)]),
                   Obj([type |-> Str(<<"UnknownError">>), message |-> Str(<<>>),
                        code |-> Num(-1)])}

\* the objects a script can print; JSON.stringify leaves out what is undefined
Envelopes ==
  {JSONValue(Obj([success |-> s, data |-> d, error |-> e])) :
     s \in {Bool(TRUE), Bool(FALSE)}, d \in EnvelopeData, e \in EnvelopeErrors}

NormalizeAnswers ==
  ExecRejections
    \cup {Resolved(NotJSON, <<>>), Resolved(JSONStringify(EmptyObject), <<"warning">>)}
    \cup {Resolved(JSONStringify(o), <<>>) : o \in Envelopes}

NormalizeCalls == {
  [function |-> "executeJXA", script |-> Script("getInbox", <<>>), params |-> << >>],
  [function |-> "executeJXA", script |-> Script("updateTodo", <<>>), params |-> [id |-> Str(Work)]],
  [function |-> "executeThingsJXA", script |-> Script("getInbox", <<>>), params |-> << >>],
  [function |-> "executeThingsJXA", script |-> Script("updateTodo", <<>>),
   params |-> [id |-> Str(Work)]],
  [function |-> "validateThingsRunning", script |-> Script("isThingsRunning", <<>>),
   params |-> << >>] }

InitNormalize ==
  /\ pc = "normalize"
  /\ request \in NormalizeCalls
  /\ things = << >>
  /\ locals = << >>
  /\ executed = << >>
  /\ outcome = Pending
  /\ ValidatorIdle
  /\ MapperIdle

\* the function up to the await of execAsync inside executeJXA
NormalizeCall ==
  /\ pc = "normalize"
  /\ executed' = Append(executed, Command(request.script, Obj(request.params)))
  /\ pc' = "awaiting"
  /\ UNCHANGED <<request, things, locals, outcome, validatorVars, mapperVars>>

\* what the function returns or throws, given what executeJXA did
Normalized(function, r) ==
  CASE function = "executeJXA"            -> r
    [] function = "executeThingsJXA"      -> executeThingsJXASettled(r)
    [] function = "validateThingsRunning" -> validateThingsRunningSettled(r)

\* execAsync settles: the rest of executeJXA and of the function that called it
NormalizeSettle ==
  /\ pc = "awaiting"
  /\ request.function \in {"executeJXA", "executeThingsJXA", "validateThingsRunning"}
  /\ \E answer \in NormalizeAnswers :
       /\ outcome' = Normalized(request.function, ExecuteJXASettled(answer))
       /\ executed' = Answered(executed, answer)
  /\ pc' = "done"
  /\ UNCHANGED <<request, things, locals, validatorVars, mapperVars>>

NextNormalize == NormalizeCall \/ NormalizeSettle

SpecNormalize == InitNormalize /\ [][NextNormalize]_vars

-----------------------------------------------------------------------------
(* Claim C18 *)

\* the object the script printed, when it printed one
PrintedEnvelope == executed[1].answer.stdout.v

\* the command was answered with an object on stdout and nothing on stderr
EnvelopePrinted ==
  /\ pc = "done"
  /\ executed # << >>
  /\ executed[1].answer.kind = "resolved"
  /\ executed[1].answer.stderr = << >>
  /\ executed[1].answer.stdout.t = "json"

\* C18: when the script prints {success: true} with data absent or falsy
\* (false, 0, empty string, null), the normalizer takes it as a valid
\* result: executeThingsJXA returns the data unwrapped, and the liveness
\* check reads it as its answer and does not report a failed check.
C18_FalsyDataIsValid ==
  (/\ EnvelopePrinted
   /\ GetProp(PrintedEnvelope, "success") = Bool(TRUE)
   /\ ~Truthy(GetProp(PrintedEnvelope, "data"))) =>
    /\ request.function = "executeJXA" => outcome = Return(PrintedEnvelope)
    /\ request.function = "executeThingsJXA" =>
         outcome = Return(GetProp(PrintedEnvelope, "data"))
    /\ request.function = "validateThingsRunning" => outcome = ThingsNotRunningError

-----------------------------------------------------------------------------
(* Claim C19 *)

\* the error object of the envelope the script printed
PrintedError == GetProp(PrintedEnvelope, "error")

\* C19: when the script prints {success: false, error: {type, message,
\* code}}, the error thrown by the normalizer has error.message in its
\* message and carries the script's machine-readable error code (its code
\* or its type), so that a not-found failure can be told from another one.
C19_ScriptErrorPreserved ==
  (/\ EnvelopePrinted
   /\ request.function \in {"executeJXA", "executeThingsJXA"}
   /\ GetProp(PrintedEnvelope, "success") = Bool(FALSE)
   /\ Truthy(PrintedError)
   /\ Truthy(GetProp(PrintedError, "message"))) =>
    /\ IsThrow(outcome)
    /\ Contains(outcome.message, GetProp(PrintedError, "message").v)
    /\ \/ outcome.code = GetProp(PrintedError, "type").v[1]
       \/ outcome.code = ToString(GetProp(PrintedError, "code").v)

-----------------------------------------------------------------------------
(* Claim C20 *)

\* the commands of the call that ran the liveness script, and the others
LivenessRuns  == {i \in DOMAIN executed : executed[i].script.name = "isThingsRunning"}
OperationRuns == DOMAIN executed \ LivenessRuns

\* the last command handed to the executor was answered by a failure
LastRunFailed ==
  /\ executed # << >>
  /\ "kind" \in DOMAIN executed[Len(executed)].answer
  /\ \/ executed[Len(executed)].answer.kind = "rejected"
     \/ executed[Len(executed)].answer.stderr # << >>
     \/ executed[Len(executed)].answer.stdout.t = "text"

\* C20: there is no retry.  Within one call the liveness script and the
\* operation script are each handed to the executor at most once, whether
\* the execution succeeds, fails or times out; a failed execution ends the
\* call at once, and the outcome of a call, once reported, is never changed
\* and nothing more is executed.
C20_NoRetry ==
  /\ [](/\ Cardinality(LivenessRuns) <= 1
        /\ Cardinality(OperationRuns) <= 1
        /\ LastRunFailed => (pc = "done" /\ outcome # Pending)
        /\ (pc = "done") <=> (outcome # Pending))
  /\ [][outcome # Pending => (outcome' = outcome /\ executed' = executed)]_vars

\* get_today whose script timed out: two commands, one reported failure
C20_Witness ==
  /\ pc = "done"
  /\ request.name = "get_today"
  /\ Len(executed) = 2
  /\ executed[2].answer.kind = "rejected"
  /\ executed[2].answer.cause = "timeout"
  /\ IsThrow(outcome)

-----------------------------------------------------------------------------
(* Specification SpecConcurrent: two tools/call requests in flight at      *)
(* once.  Node runs one handler at a time and switches between them at     *)
(* their awaits, so the steps of the two calls interleave at the two       *)
(* suspension points of each (the liveness script, the operation script).  *)
(* pc, request, locals and outcome hold one entry per call; executed is    *)
(* the one log of the commands handed to execAsync, each tagged with the   *)
(* call that handed it; things is the one target application.              *)

Calls == {1, 2}

ConcurrentRequests == {
  [name |-> "add_todo", arguments |-> [title |-> Str(BuyMilkPadded)], size |-> SmallRequest],
  [name |-> "update_todo", arguments |-> [id |-> Str(Work), completed |-> Bool(TRUE)],
   size |-> SmallRequest],
  [name |-> "show_item", arguments |-> [id |-> Str(Missing)], size |-> SmallRequest],
  [name |-> "get_logbook", arguments |-> [period |-> Str(TwoWeeks)], size |-> SmallRequest],
  [name |-> "search_todos", arguments |-> [query |-> Str(Osascript)], size |-> SmallRequest],
  [name |-> "get_inbox", arguments |-> << >>, size |-> maxRequestSize + 1] }

ConcurrentThings == {[running |-> TRUE, items |-> [i \in {Work} |-> Item("todo", "open")]],
                     [running |-> TRUE, items |-> << >>]}

RequestTooLargeError ==
  McpError(InvalidParams, <<"Request too large: ", "requestSize", " bytes">>)

\* the command of a call, as it stands in the log
CommandOf(call, script, params) == Extend(Command(script, params), "call", call)

\* the commands one call handed to execAsync, in order
RECURSIVE CommandsOf(_, _)
CommandsOf(log, call) ==
  IF log = << >> THEN << >>
  ELSE (IF Head(log).call = call THEN <<Head(log)>> ELSE << >>) \o CommandsOf(Tail(log), call)

\* the command whose answer the call awaits
AwaitedBy(log, call) == CHOOSE k \in DOMAIN log : log[k].call = call /\ log[k].answer = Pending

AnsweredTo(log, call, answer) == [log EXCEPT ![AwaitedBy(log, call)].answer = answer]

\* one variable shared by every invocation of the handlers
StoreFrameShared(frames, call, frame) == [c \in DOMAIN frames |-> frame]

\* the handler's local variables (const scriptParams, const validatedQuery,
\* ...) belong to the invocation that declared them
StoreFrame(frames, call, frame) == [frames EXCEPT ![call] = frame]

InitConcurrent ==
  /\ pc = [c \in Calls |-> "start"]
  /\ request \in [Calls -> ConcurrentRequests]
  /\ things \in ConcurrentThings
  /\ locals = [c \in Calls |-> << >>]
  /\ executed = << >>
  /\ outcome = [c \in Calls |-> Pending]
  /\ ValidatorIdle
  /\ MapperIdle

\* one call up to its first await
ConcurrentCallTool(call) ==
  /\ pc[call] = "start"
  /\ IF RequestTooLarge(request[call]) THEN
       /\ outcome' = [outcome EXCEPT ![call] = Settle(RequestTooLargeError)]
       /\ pc' = [pc EXCEPT ![call] = "done"]
       /\ UNCHANGED executed
     ELSE IF ScriptTooLarge(Script("isThingsRunning", <<>>)) THEN
       /\ outcome' = [outcome EXCEPT ![call] =
                        Settle(validateThingsRunningSettled(OuterCatch(ScriptTooLargeError)))]
       /\ pc' = [pc EXCEPT ![call] = "done"]
       /\ UNCHANGED executed
     ELSE
       /\ executed' = Append(executed, CommandOf(call, Script("isThingsRunning", <<>>), EmptyObject))
       /\ pc' = [pc EXCEPT ![call] = "checking"]
       /\ UNCHANGED outcome
  /\ UNCHANGED <<request, things, locals, validatorVars, mapperVars>>

\* the call goes on to its script, or ends
ConcurrentContinue(call, next, log) ==
  IF next.t = "call" THEN
    /\ executed' = Append(log, CommandOf(call, next.script, Obj(next.params)))
    /\ locals' = StoreFrame(locals, call, next.locals)
    /\ pc' = [pc EXCEPT ![call] = "executing"]
    /\ UNCHANGED outcome
  ELSE
    /\ outcome' = [outcome EXCEPT ![call] = next]
    /\ pc' = [pc EXCEPT ![call] = "done"]
    /\ executed' = log
    /\ UNCHANGED locals

\* the liveness script of one call has been answered
ConcurrentThingsCheckSettles(call) ==
  /\ pc[call] = "checking"
  /\ \E answer \in ExecAnswers(Script("isThingsRunning", <<>>), EmptyObject, things) :
       ConcurrentContinue(call,
         Route(validateThingsRunningSettled(ExecuteJXASettled(answer)),
               getHandlerMethod(request[call].name), request[call]),
         AnsweredTo(executed, call, answer))
  /\ UNCHANGED <<request, things, validatorVars, mapperVars>>

\* the operation script of one call has been answered; command is the
\* command the call awaits, frame the locals of the handler
ConcurrentSettle(call, command, frame) ==
  \E answer \in ExecAnswers(command.script, command.params.v, things) :
    /\ outcome' = [outcome EXCEPT ![call] =
         Settle(HandlerSettled(frame.method, frame.locals, ExecuteJXASettled(answer)))]
    /\ things' \in ThingsAfterAnswer(command.script, command.params.v, things, answer)
    /\ executed' = AnsweredTo(executed, call, answer)

ConcurrentOperationSettles(call) ==
  /\ pc[call] = "executing"
  /\ ConcurrentSettle(call, executed[AwaitedBy(executed, call)], locals[call])
  /\ pc' = [pc EXCEPT ![call] = "done"]
  /\ UNCHANGED <<request, locals, validatorVars, mapperVars>>

NextConcurrent ==
  \E call \in Calls :
    \/ ConcurrentCallTool(call)
    \/ ConcurrentThingsCheckSettles(call)
    \/ ConcurrentOperationSettles(call)

SpecConcurrent == InitConcurrent /\ [][NextConcurrent]_vars

-----------------------------------------------------------------------------
(* Claim C21 *)

\* one call run alone: what the dispatcher does after the liveness script
\* was answered as own[1] was
AloneNext(req, own) ==
  Route(validateThingsRunningSettled(ExecuteJXASettled(own[1].answer)),
        getHandlerMethod(req.name), req)

AloneResult(next, own) ==
  IF next.t # "call" THEN next
  ELSE Settle(HandlerSettled(next.locals.method, next.locals.locals,
                             ExecuteJXASettled(own[2].answer)))

\* the outcome of the call run alone against the answers own holds
AloneOutcome(req, own) ==
  IF RequestTooLarge(req) THEN Settle(RequestTooLargeError)
  ELSE AloneResult(AloneNext(req, own), own)

NotInterfered(call, req, own) ==
  /\ Len(own) <= 2
  /\ Len(own) >= 1 =>
       [own[1] EXCEPT !.answer = Pending] =
         CommandOf(call, Script("isThingsRunning", <<>>), EmptyObject)
  /\ Len(own) = 2 =>
       /\ AloneNext(req, own).t = "call"
       /\ [own[2] EXCEPT !.answer = Pending] =
            CommandOf(call, AloneNext(req, own).script, Obj(AloneNext(req, own).params))
  /\ pc[call] = "executing" =>
       /\ Len(own) = 2
       /\ locals[call] = AloneNext(req, own).locals
  /\ pc[call] = "done" => outcome[call] = AloneOutcome(req, own)
  /\ pc[call] # "done" => outcome[call] = Pending

\* C21: two calls in flight at once do not interfere.  In every interleaving
\* of their steps at the suspension points, the commands each call hands to
\* the executor (script and side-channel parameters), the handler's mapped
\* parameters and the call's response are the ones the call produces when
\* run alone against the answers it received; nothing of the other call
\* enters them.
C21_NoInterference ==
  \A call \in Calls : NotInterfered(call, request[call], CommandsOf(executed, call))

\* add_todo and update_todo in flight together: the second call's two
\* commands were handed over between the first call's, and both answered
C21_Witness ==
  /\ request[1].name = "add_todo"
  /\ request[2].name = "update_todo"
  /\ Len(executed) = 4
  /\ <<executed[1].call, executed[2].call, executed[3].call, executed[4].call>> = <<1, 2, 2, 1>>
  /\ pc = [c \in Calls |-> "done"]
  /\ outcome[1] = Return(Created("Created to-do: ", Str(BuyMilk), Obj([id |-> Str(NewId)])))
  /\ outcome[2] = Return(Updated("Updated to-do: ", Str(Work)))

-----------------------------------------------------------------------------
(* Claim C22 *)

StatusFlags == {"completed", "canceled"}

\* C22: the flags completed and canceled are in the mapped parameters
\* exactly when the caller supplied the key; a supplied flag is mapped to a
\* boolean, the boolean of its value (an explicit false stays false and is
\* not stripped), and a flag that was not supplied is left out.
C22_FlagsWhenSupplied ==
  (MappedOk /\ DOMAIN additionalFields \cap StatusFlags = {}) =>
    \A k \in StatusFlags :
      /\ k \in DOMAIN mapped.v <=> k \in DOMAIN args
      /\ k \in DOMAIN args =>
           /\ mapped.v[k].t = "boolean"
           /\ mapped.v[k] = Bool(Truthy(args[k]))
           /\ args[k].t = "boolean" => mapped.v[k] = args[k]

\* {id, completed: false} has been mapped: completed is kept as false and
\* canceled, which was not supplied, is absent
C22_Witness ==
  /\ args = [id |-> Str(Work), completed |-> Bool(FALSE)]
  /\ MappedOk
  /\ mapped.v = [id |-> Str(Work), completed |-> Bool(FALSE)]

-----------------------------------------------------------------------------
(* Specification SpecScript: one run of a generated script by osascript,   *)
(* statement by statement.  request is the template, the values written    *)
(* into its text and the parameters object in argv[0]; things is the       *)
(* target application; locals is the script's reference to its item;       *)
(* executed is the log of the Apple events the script sent, each with      *)
(* whether it succeeded; outcome is what osascript ends with.  An event    *)
(* may fail for reasons outside the script; an event about an object that  *)
(* does not exist always fails.                                            *)

Errands == <<"E", "r", "r", "a", "n", "d", "s">>
Home    == <<"H", "o", "m", "e">>
HomeId  == <<"a", "1">>
ChildId == <<"n", "e", "w", "2">>
Inbox   == <<"inbox">>
NoArea  == <<"none">>

ScriptItem(type, name, status, container) ==
  [type |-> type, name |-> name, status |-> status, container |-> container, scheduled |-> <<>>]

ScriptThings == {
  [running |-> TRUE,
   items |-> (Work :> ScriptItem("project", Errands, "open", NoArea))
               @@ (HomeId :> ScriptItem("area", Home, "open", NoArea))],
  [running |-> TRUE, items |-> (Work :> ScriptItem("todo", OldTask, "open", Inbox))],
  [running |-> TRUE, items |-> (Work :> ScriptItem("todo", OldTask, "completed", Inbox))] }

\* the statements of a template that send Apple events, in order
ScriptSteps(template) ==
  CASE template \in {"createTodo", "createProject"} ->
         <<"make", "deadline", "schedule", "tags", "move", "extras", "data">>
    [] template = "updateTodo" ->
         <<"find", "title", "notes", "deadline", "schedule", "tags", "extras",
           "completed", "canceled", "data">>
    [] template = "updateProject" ->
         <<"find", "title", "notes", "deadline", "schedule", "tags",
           "completed", "canceled", "data">>
    [] OTHER -> <<"read">>

StepAfter(template, step) ==
  LET steps == ScriptSteps(template)
      i     == CHOOSE k \in DOMAIN steps : steps[k] = step
  IN IF i = Len(steps) THEN "returned" ELSE steps[i + 1]

Event(command, what, ok) == [command |-> command, what |-> what, ok |-> ok]

\* what osascript ends with: the text run() returned, on stdout
Printed(envelope) == Resolved(JSONStringify(envelope), <<>>)

\* a script that does not compile: osascript reports the error and exits with 1
SyntaxErrorExit ==
  [kind |-> "rejected", cause |-> "exit", code |-> "1",
   message |-> <<"Command failed: osascript -l JavaScript", "execution error">>]

\* the error object of a failed Apple event
BridgeError == [name |-> "Error", message |-> "Can't get object.", errorNumber |-> -1728]

\* TEMPLATE_SUFFIX: } catch (error) { return JSON.stringify({success: false, error: {...}}) }
Caught(error) == Failure(error.name, error.message, error.errorNumber)

\* the text `${x}` writes into the script is an expression of JavaScript: a
\* number, a boolean, a text of digits, the elements of an array joined by
\* commas; an object is written as [object Object], which is none
RECURSIVE InterpolatesToExpression(_)
InterpolatesToExpression(x) ==
  CASE x.t \in {"number", "boolean", "null", "undefined"} -> TRUE
    [] x.t = "string" -> x.v # <<>> /\ \A i \in DOMAIN x.v : IsDigit(x.v[i])
    [] x.t = "array"  -> \A i \in DOMAIN x.v : InterpolatesToExpression(x.v[i])
    [] OTHER -> FALSE

Compiles(baked) == \A i \in DOMAIN baked : InterpolatesToExpression(baked[i])

\* things.schedule(item, {for: scheduleDate}) outside any try: its failure
\* reaches the catch of the envelope
scheduleItemUncaught(ok, next) == IF ok THEN next ELSE "catch"

\* try { things.schedule(item, {for: scheduleDate}) } catch (e) { }
scheduleItem(ok, next) == next

\* project.toDos.push(todo) outside any try
moveItemUncaught(ok, next) == IF ok THEN next ELSE "catch"

\* try { project.toDos.push(todo) } catch (e) { /* leave in inbox */ }
moveItem(ok, next) == next

\* the reference the script moves the new item to: the first of the
\* if / else if chain whose parameter is truthy
MoveTarget(template, p) ==
  IF template = "createTodo" /\ Truthy(Get(p, "list_id"))
    THEN [by |-> "id", types |-> {"project"}, key |-> Get(p, "list_id")]
  ELSE IF template = "createTodo" /\ Truthy(Get(p, "list_title"))
    THEN [by |-> "name", types |-> {"project"}, key |-> Get(p, "list_title")]
  ELSE IF Truthy(Get(p, "area_id"))
    THEN [by |-> "id", types |-> {"area"}, key |-> Get(p, "area_id")]
  ELSE IF Truthy(Get(p, "area_title"))
    THEN [by |-> "name", types |-> {"area"}, key |-> Get(p, "area_title")]
  ELSE [by |-> "none", types |-> {}, key |-> Undefined]

\* the objects of the application the reference names
Targets(th, target) ==
  {i \in DOMAIN th.items :
     /\ th.items[i].type \in target.types
     /\ IF target.by = "id" THEN i = target.key.v ELSE th.items[i].name = target.key.v}

IsCreate(template) == template \in {"createTodo", "createProject"}

\* what an event about the script's item can do
EventOutcomes(loc) == IF loc.valid THEN BOOLEAN ELSE {FALSE}

\* the parameters the handlers hand to the scripts, as JSON carries them
Locations == {
  << >>,
  [list_id |-> Str(Work)], [list_id |-> Str(Missing)],
  [list_title |-> Str(Errands)], [list_title |-> Str(Missing)],
  [area_id |-> Str(HomeId)], [area_id |-> Str(Missing)],
  [area_title |-> Str(Home)], [area_title |-> Str(Missing)],
  [list_id |-> Str(Missing), area_id |-> Str(HomeId)] }

Areas == {l \in Locations : DOMAIN l \subseteq {"area_id", "area_title"}}

\* f with the key added when the value is not undefined
With(f, key, value) == IF value = Undefined THEN f ELSE Extend(f, key, value)

OptionalDates == {Undefined, Str(Date1)}
OptionalTags  == {Undefined, Arr(<<Str(Work)>>)}
OptionalFlags == {Undefined, Bool(TRUE), Bool(FALSE)}

ScriptRuns ==
  {[template |-> "createTodo", baked |-> <<>>,
    params |-> With(With(With([title |-> Str(BuyMilk)] @@ l, "when", w), "tags", g),
                    "checklist_items", c)] :
     l \in Locations, w \in OptionalDates, g \in OptionalTags, c \in OptionalTags}
  \cup
  {[template |-> "createProject", baked |-> <<>>,
    params |-> With(With([title |-> Str(BuyMilk)] @@ l, "when", w), "todos", c)] :
     l \in Areas, w \in OptionalDates, c \in OptionalTags}
  \cup
  {[template |-> t, baked |-> <<>>,
    params |-> With(With(With(With([id |-> Str(i)], "title", n), "when", w),
                    "completed", c), "canceled", d)] :
     t \in {"updateTodo", "updateProject"}, i \in {Work, Missing},
     n \in {Undefined, Str(BuyMilk)}, w \in OptionalDates,
     c \in OptionalFlags, d \in OptionalFlags}
  \cup
  {[template |-> "updateTodo", baked |-> <<>>,
    params |-> [id |-> Str(Work), checklist_items |-> Arr(<<Str(Work)>>),
                notes |-> Str(BuyMilk), deadline |-> Str(Date2), tags |-> Arr(<<>>)]]}
  \cup
  {[template |-> "getLogbook", baked |-> <<limit, Num(14)>>, params |-> << >>] :
     limit \in {Num(50), Num(10), Str(<<"1", "0">>), Bool(TRUE), EmptyObject,
                Arr(<<Num(10)>>)}}
  \cup
  {[template |-> t, baked |-> <<Bool(b)>>, params |-> << >>] :
     t \in {"getAreas", "getProjects"}, b \in BOOLEAN}
  \cup
  {[template |-> t, baked |-> <<>>, params |-> << >>] : t \in {"isThingsRunning", "getInbox"}}

InitScript ==
  /\ pc = "compile"
  /\ request \in ScriptRuns
  /\ things \in ScriptThings
  /\ locals = [item |-> <<>>, valid |-> FALSE]
  /\ executed = << >>
  /\ outcome = Pending
  /\ ValidatorIdle
  /\ MapperIdle

\* the script goes on with the statement after this one
GoOn(step) ==
  /\ pc' = StepAfter(request.template, step)
  /\ UNCHANGED outcome

\* an exception reaches the catch of the envelope
Fail(error) ==
  /\ pc' = "returned"
  /\ outcome' = Printed(Caught(error))

Resume(after) == IF after = "catch" THEN Fail(BridgeError) ELSE pc' = after /\ UNCHANGED outcome

\* a statement that sends one Apple event about the item when `applies`;
\* swallowed tells whether it stands in a try whose catch does nothing
Statement(step, applies, command, what, swallowed) ==
  /\ pc = step
  /\ IF applies THEN
       \E ok \in EventOutcomes(locals) :
         /\ executed' = Append(executed, Event(command, what, ok))
         /\ IF ok \/ swallowed THEN GoOn(step) ELSE Fail(BridgeError)
     ELSE GoOn(step) /\ UNCHANGED executed

\* osascript compiles the text and calls run(argv); TEMPLATE_PREFIX parses
\* argv[0] and takes the application
RunScript ==
  /\ pc = "compile"
  /\ IF ~Compiles(request.baked) THEN
       /\ pc' = "returned"
       /\ outcome' = SyntaxErrorExit
       /\ UNCHANGED executed
     ELSE \E ok \in BOOLEAN :
       /\ executed' = Append(executed, Event("application", "Things", ok))
       /\ IF ok THEN pc' = ScriptSteps(request.template)[1] /\ UNCHANGED outcome
          ELSE Fail(BridgeError)
  /\ UNCHANGED <<request, things, locals, validatorVars, mapperVars>>

\* const todo = things.ToDo(todoProps); things.toDos.push(todo)
MakeItem ==
  /\ pc = "make"
  /\ \E ok \in BOOLEAN :
       /\ executed' = Append(executed, Event("make", request.template, ok))
       /\ IF ok THEN
            /\ things' = [things EXCEPT !.items = Extend(@, NewId,
                 IF request.template = "createTodo"
                   THEN ScriptItem("todo", request.params.title.v, "open", Inbox)
                   ELSE ScriptItem("project", request.params.title.v, "open", NoArea))]
            /\ locals' = [item |-> NewId, valid |-> TRUE]
            /\ GoOn("make")
          ELSE Fail(BridgeError) /\ UNCHANGED <<things, locals>>
  /\ UNCHANGED <<request, validatorVars, mapperVars>>

\* try { todo = things.toDos.byId(params.id) } catch (e) { return not found }:
\* the reference to an object that does not exist fails here or at its
\* first use, as the bridge resolves it
FindItem ==
  /\ pc = "find"
  /\ IF Found(things, Get(request.params, "id"), UpdateTypes(request.template)) THEN
       /\ locals' = [item |-> request.params.id.v, valid |-> TRUE]
       /\ GoOn("find")
     ELSE
       \/ /\ pc' = "returned"
          /\ outcome' = Printed(Failure("NotFound",
               IF request.template = "updateTodo" THEN "Todo not found" ELSE "Project not found",
               -1))
          /\ UNCHANGED locals
       \/ /\ locals' = [item |-> request.params.id.v, valid |-> FALSE]
          /\ GoOn("find")
  /\ UNCHANGED <<request, things, executed, validatorVars, mapperVars>>

\* if (params.title !== undefined) todo.name = params.title
SetTitle ==
  /\ Statement("title", Get(request.params, "title") # Undefined, "set", "name", FALSE)
  /\ UNCHANGED <<request, things, locals, validatorVars, mapperVars>>

\* if (params.notes !== undefined) todo.notes = params.notes
SetNotes ==
  /\ Statement("notes", Get(request.params, "notes") # Undefined, "set", "notes", FALSE)
  /\ UNCHANGED <<request, things, locals, validatorVars, mapperVars>>

\* create: if (params.deadline) { try { todo.dueDate = ... } catch (e) { } }
\* update: if (params.deadline !== undefined) todo.dueDate = ...
SetDeadline ==
  /\ Statement("deadline",
               IF IsCreate(request.template) THEN Truthy(Get(request.params, "deadline"))
               ELSE Get(request.params, "deadline") # Undefined,
               "set", "dueDate", IsCreate(request.template))
  /\ UNCHANGED <<request, things, locals, validatorVars, mapperVars>>

\* scheduleItem(item, params.when)
ScheduleItem ==
  /\ pc = "schedule"
  /\ IF Truthy(Get(request.params, "when")) THEN
       \E ok \in EventOutcomes(locals) :
         /\ executed' = Append(executed, Event("schedule", "for", ok))
         /\ things' = IF ok THEN [things EXCEPT !.items[locals.item].scheduled = request.params.when.v]
                      ELSE things
         /\ Resume(scheduleItem(ok, StepAfter(request.template, "schedule")))
     ELSE GoOn("schedule") /\ UNCHANGED <<executed, things>>
  /\ UNCHANGED <<request, locals, validatorVars, mapperVars>>

\* create: if (params.tags && params.tags.length > 0) try { ... } catch (e) { }
\* update: if (params.tags !== undefined) try { ... } catch (e) { }
SetTags ==
  /\ Statement("tags",
               IF IsCreate(request.template)
                 THEN Truthy(Get(request.params, "tags")) /\ Len(request.params.tags.v) > 0
                 ELSE Get(request.params, "tags") # Undefined,
               "set", "tagNames", TRUE)
  /\ UNCHANGED <<request, things, locals, validatorVars, mapperVars>>

\* the move to the project or area named in the parameters; target is the
\* reference, found the objects it names
MoveTo(target, found) ==
  IF target.by = "none" THEN
    GoOn("move") /\ UNCHANGED <<executed, things>>
  ELSE IF found = {} THEN
    /\ executed' = Append(executed, Event("move", target.by, FALSE))
    /\ Resume(moveItem(FALSE, StepAfter(request.template, "move")))
    /\ UNCHANGED things
  ELSE \E ok \in EventOutcomes(locals) :
    /\ executed' = Append(executed, Event("move", target.by, ok))
    /\ things' = IF ok THEN [things EXCEPT !.items[locals.item].container =
                                CHOOSE i \in found : TRUE]
                 ELSE things
    /\ Resume(moveItem(ok, StepAfter(request.template, "move")))

MoveItem ==
  /\ pc = "move"
  /\ MoveTo(MoveTarget(request.template, request.params),
            Targets(things, MoveTarget(request.template, request.params)))
  /\ UNCHANGED <<request, locals, validatorVars, mapperVars>>

\* createTodo and updateTodo: the checklist items are appended to the notes;
\* createProject: a to-do is made in the project for each title
Extras ==
  /\ pc = "extras"
  /\ IF request.template = "createProject" THEN
       IF Truthy(Get(request.params, "todos")) /\ Len(request.params.todos.v) > 0 THEN
         \E ok \in EventOutcomes(locals) :
           /\ executed' = Append(executed, Event("make", "todos", ok))
           /\ IF ok THEN
                /\ things' = [things EXCEPT !.items = Extend(@, ChildId,
                     ScriptItem("todo", request.params.todos.v[1].v, "open", locals.item))]
                /\ GoOn("extras")
              ELSE Fail(BridgeError) /\ UNCHANGED things
       ELSE GoOn("extras") /\ UNCHANGED <<executed, things>>
     ELSE
       IF Truthy(Get(request.params, "checklist_items"))
            /\ Len(request.params.checklist_items.v) > 0 THEN
         \E ok \in EventOutcomes(locals) :
           /\ executed' = Append(executed, Event("set", "notes", ok))
           /\ (IF ok THEN GoOn("extras") ELSE Fail(BridgeError))
           /\ UNCHANGED things
       ELSE GoOn("extras") /\ UNCHANGED <<executed, things>>
  /\ UNCHANGED <<request, locals, validatorVars, mapperVars>>

\* if (params.flag !== undefined) todo.status = params.flag ? value : 'open'
SetStatus(step, flag, value) ==
  /\ IF Get(request.params, flag) # Undefined THEN
       \E ok \in EventOutcomes(locals) :
         /\ executed' = Append(executed, Event("set", "status", ok))
         /\ IF ok THEN
              /\ things' = [things EXCEPT !.items[locals.item].status =
                              IF Truthy(request.params[flag]) THEN value ELSE "open"]
              /\ GoOn(step)
            ELSE Fail(BridgeError) /\ UNCHANGED things
     ELSE GoOn(step) /\ UNCHANGED <<executed, things>>
  /\ UNCHANGED <<request, locals, validatorVars, mapperVars>>

SetCompleted ==
  /\ pc = "completed"
  /\ SetStatus("completed", "completed", "completed")

SetCanceled ==
  /\ pc = "canceled"
  /\ SetStatus("canceled", "canceled", "canceled")

\* the data of the item the script returns
ReturnedData(template, id, item) ==
  IF IsCreate(template) THEN Obj([id |-> Str(id), name |-> Str(item.name)])
  ELSE Obj([id |-> Str(id), name |-> Str(item.name), status |-> Str(<<item.status>>)])

\* return JSON.stringify({success: true, data: {id: todo.id(), name: todo.name(), ...}})
ReturnData ==
  /\ pc = "data"
  /\ \E ok \in EventOutcomes(locals) :
       /\ executed' = Append(executed, Event("get", "id", ok))
       /\ IF ok THEN
            /\ outcome' = Printed(Success(
                 ReturnedData(request.template, locals.item, things.items[locals.item])))
            /\ pc' = "returned"
          ELSE Fail(BridgeError)
  /\ UNCHANGED <<request, things, locals, validatorVars, mapperVars>>

\* the body of a template that only reads
ReadItems ==
  /\ pc = "read"
  /\ \E ok \in BOOLEAN :
       /\ executed' = Append(executed, Event("get", request.template, ok))
       /\ pc' = "returned"
       /\ outcome' \in
            IF ok THEN
              IF request.template = "isThingsRunning"
                THEN {Printed(Success(Bool(things.running)))}
                ELSE {Printed(o) : o \in ListOutputs}
            ELSE IF request.template = "getAreas"
              THEN {Printed(Failure("AccessError", "Unable to access areas", -1))}
            ELSE {Printed(Caught(BridgeError))}
  /\ UNCHANGED <<request, things, locals, validatorVars, mapperVars>>

NextScript ==
  \/ RunScript
  \/ MakeItem
  \/ FindItem
  \/ SetTitle
  \/ SetNotes
  \/ SetDeadline
  \/ ScheduleItem
  \/ SetTags
  \/ MoveItem
  \/ Extras
  \/ SetCompleted
  \/ SetCanceled
  \/ ReturnData
  \/ ReadItems

SpecScript == InitScript /\ [][NextScript]_vars

-----------------------------------------------------------------------------
(* Claim C23 *)

\* a create script whose parameters name a project or an area, by id or by
\* title, that the application does not have
UnresolvableLocation ==
  /\ IsCreate(request.template)
  /\ MoveTarget(request.template, request.params).by # "none"
  /\ Targets(things, MoveTarget(request.template, request.params)) = {}

\* every Apple event of the run other than the move succeeded
EventsOkExcept(command) ==
  \A i \in DOMAIN executed : executed[i].command # command => executed[i].ok

\* C23: the location assignment is best-effort.  A create-todo or
\* create-project script that names a project or an area (by id or by
\* title) that does not exist still creates the item, leaves it where it
\* was made (the inbox, no area) and returns success with the new id: the
\* reference that cannot be resolved raises no error.
C23_BestEffortLocation ==
  UnresolvableLocation =>
    /\ NewId \in DOMAIN things.items =>
         things.items[NewId].container \in {Inbox, NoArea}
    /\ (pc = "returned" /\ EventsOkExcept("move")) =>
         /\ NewId \in DOMAIN things.items
         /\ outcome = Printed(Success(Obj([id |-> Str(NewId), name |-> request.params.title])))

\* createTodo with the id of a project that does not exist: the move failed,
\* the to-do is in the inbox and the script printed its success
C23_Witness ==
  /\ pc = "returned"
  /\ request.template = "createTodo"
  /\ Get(request.params, "list_id") = Str(Missing)
  /\ \E i \in DOMAIN executed : executed[i] = Event("move", "id", FALSE)
  /\ things.items[NewId].container = Inbox
  /\ outcome = Printed(Success(Obj([id |-> Str(NewId), name |-> Str(BuyMilk)])))

-----------------------------------------------------------------------------
(* Claim C24 *)

\* where the reschedule that failed stands in the log
FailedSchedules == {i \in DOMAIN executed : executed[i] = Event("schedule", "for", FALSE)}

\* the event is in the log after position i
DoneAfter(i, event) == \E j \in DOMAIN executed : j > i /\ executed[j] = event

\* the statements after the reschedule that the parameters call for were
\* all carried out
RemainingStepsDone(i, template, p) ==
  /\ (Get(p, "tags") # Undefined) => DoneAfter(i, Event("set", "tagNames", TRUE))
  /\ (IsCreate(template) /\ MoveTarget(template, p).by # "none") =>
       \E j \in DOMAIN executed : j > i /\ executed[j].command = "move"
  /\ (~IsCreate(template) /\ (Get(p, "completed") # Undefined \/ Get(p, "canceled") # Undefined)) =>
       DoneAfter(i, Event("set", "status", TRUE))
  /\ executed[Len(executed)] = Event("get", "id", TRUE)

\* C24: a schedule date is applied by the reschedule command alone, never by
\* an assignment to the activation date, and a failure of that command is
\* swallowed: a create or update script whose reschedule fails still carries
\* out its remaining statements and returns success.
C24_RescheduleFailureSwallowed ==
  /\ \A i \in DOMAIN executed :
       ~(executed[i].command = "set" /\ executed[i].what = "activationDate")
  /\ \A id \in DOMAIN things.items :
       things.items[id].scheduled # <<>> =>
         \E i \in DOMAIN executed : executed[i] = Event("schedule", "for", TRUE)
  /\ (pc = "returned" /\ FailedSchedules # {} /\ EventsOkExcept("schedule")) =>
       /\ outcome = Printed(Success(
            ReturnedData(request.template, locals.item, things.items[locals.item])))
       /\ things.items[locals.item].scheduled = <<>>
       /\ \A i \in FailedSchedules : RemainingStepsDone(i, request.template, request.params)

\* updateTodo with a date and completed: the reschedule failed, the status
\* was set all the same and the script printed its success
C24_Witness ==
  /\ pc = "returned"
  /\ request.template = "updateTodo"
  /\ request.params = [id |-> Str(Work), when |-> Str(Date1), completed |-> Bool(TRUE)]
  /\ FailedSchedules # {}
  /\ things.items[Work].status = "completed"
  /\ things.items[Work].scheduled = <<>>
  /\ outcome = Printed(Success(Obj([id |-> Str(Work), name |-> Str(OldTask),
                                    status |-> Str(<<"completed">>)])))

-----------------------------------------------------------------------------
(* Specification SpecArray: validateArrayInput applied to one input under  *)
(* a maxItems.                                                             *)

SmallMaxItems == 2

\* n copies of x
ArrayOf(n, x) == [i \in 1..n |-> x]

\* a text of n letters
Letters(n) == [i \in 1..n |-> "a"]

ItemValues == {Str(Work), Str(UrgentPadded), Str(Blank), Str(<<>>), Str(Osascript),
               Str(Letters(maxItemLength)), Str(Letters(maxItemLength + 1)),
               Num(5), Null, Undefined, Arr(<<>>)}

ArrayInputs ==
  {Arr(ArrayOf(n, Str(Work))) :
     n \in {0, 1, SmallMaxItems, SmallMaxItems + 1, maxArrayLength, maxArrayLength + 1}}
    \cup {Arr(<<x>>) : x \in ItemValues}
    \cup {Arr(<<Str(Work), x>>) : x \in ItemValues}
    \cup {Arr(<<x, Str(UrgentPadded)>>) : x \in ItemValues}
    \cup {Arr(ArrayOf(maxArrayLength - 1, Str(Work)) \o <<x>>) : x \in ItemValues}
    \cup NonArrayValues \cup {Undefined}

InitArray ==
  /\ input \in ArrayInputs
  /\ maxLengthArg \in {SmallMaxItems, maxArrayLength}
  /\ validated = Pending
  /\ MapperIdle
  /\ CallIdle

ValidateArray ==
  /\ validated = Pending
  /\ validated' = validateArrayInput(input, "tags", maxLengthArg)
  /\ UNCHANGED <<input, maxLengthArg, mapperVars, callVars>>

NextArray == ValidateArray

SpecArray == InitArray /\ [][NextArray]_vars

-----------------------------------------------------------------------------
(* Claim C25 *)

\* an element validateStringInput rejects under the per-item cap
BadItem(x) == BadText(x, maxItemLength) \/ x = Str(<<>>)

\* C25: validateArrayInput throws InvalidParams when the value is not an
\* array or has more than maxItems elements (exactly maxItems is accepted);
\* otherwise every element is validated by validateStringInput under the
\* per-item cap of 100 characters, which is not the cap of a string field:
\* one invalid element makes the whole call throw InvalidParams, and when
\* none is invalid the result is the array of the validated elements.
C25_ArrayValidation ==
  validated # Pending =>
    IF input.t # "array" \/ Len(input.v) > maxLengthArg
         \/ \E i \in DOMAIN input.v : BadItem(input.v[i])
      THEN IsThrow(validated) /\ validated.code = InvalidParams
      ELSE /\ validated.t = "array"
           /\ Len(validated.v) = Len(input.v)
           /\ \A i \in DOMAIN input.v :
                /\ validated.v[i] = Str(Trim(input.v[i].v))
                /\ Len(input.v[i].v) <= maxItemLength

\* an array of exactly maxItems elements, the last of exactly 100
\* characters, has been accepted
C25_Witness ==
  /\ maxLengthArg = maxArrayLength
  /\ input.t = "array"
  /\ Len(input.v) = maxArrayLength
  /\ input.v[maxArrayLength] = Str(Letters(maxItemLength))
  /\ validated.t = "array"
  /\ Len(validated.v) = maxArrayLength
  /\ validated.v[maxArrayLength] = Str(Letters(maxItemLength))

-----------------------------------------------------------------------------
(* Claim C26 *)

LocationKeys == {"list_id", "list_title", "project", "area_id", "area_title", "area"}

\* the input of C26: some of the six location arguments, each a valid text
C26_Input ==
  /\ DOMAIN args \subseteq LocationKeys
  /\ \A k \in DOMAIN args : IsValidText(args[k])
  /\ additionalFields = << >>

\* the value the mapper is to give a key: that of the first of the two
\* arguments that was supplied
FirstOf(Text(_), first, second) ==
  IF first \in DOMAIN args THEN Text(args[first])
  ELSE IF second \in DOMAIN args THEN Text(args[second])
  ELSE Undefined

\* the mapping of the location arguments, parametrised by what the mapper
\* does to a text
C26_Resolution(Text(_)) ==
  (mapped # Pending /\ C26_Input) =>
    /\ ~IsThrow(mapped)
    /\ DOMAIN mapped.v \subseteq {"list_id", "project", "area_id", "area"}
    /\ MappedValue("list_id") = FirstOf(Text, "list_id", "list_id")
    /\ MappedValue("area_id") = FirstOf(Text, "area_id", "area_id")
    /\ MappedValue("project") = FirstOf(Text, "list_title", "project")
    /\ MappedValue("area")    = FirstOf(Text, "area_title", "area")

\* C26 as stated: list_id and area_id pass through under their own keys,
\* project is list_title else the legacy project, area is area_title else
\* the legacy area, each with the value the caller gave; with all forms
\* supplied the four keys list_id, project, area_id and area are all there.
C26_AsStated == C26_Resolution(AsGiven)

\* C26 (amended): as stated, except that each of the four keys holds the
\* caller's text without its leading and trailing whitespace.
C26_LocationMapping == C26_Resolution(Trimmed)

\* all six location arguments were supplied, the titles differing from their
\* legacy aliases: the four keys are there and the titles won
C26_Witness ==
  /\ C26_Input
  /\ DOMAIN args = LocationKeys
  /\ args["list_title"] # args["project"]
  /\ args["area_title"] # args["area"]
  /\ MappedOk
  /\ DOMAIN mapped.v = {"list_id", "project", "area_id", "area"}
  /\ mapped.v["project"] = Trimmed(args["list_title"])
  /\ mapped.v["area"] = Trimmed(args["area_title"])

-----------------------------------------------------------------------------
(* Claim C27 *)

\* {success: true, data} or {success: false, error: {type, message, code}}
IsEnvelope(e) ==
  /\ e.t = "object"
  /\ \/ /\ DOMAIN e.v = {"success", "data"}
        /\ e.v["success"] = Bool(TRUE)
     \/ /\ DOMAIN e.v = {"success", "error"}
        /\ e.v["success"] = Bool(FALSE)
        /\ e.v["error"].t = "object"
        /\ DOMAIN e.v["error"].v = {"type", "message", "code"}

\* the run of the script ended with an envelope on stdout
EnvelopeReturned ==
  /\ outcome.kind = "resolved"
  /\ outcome.stdout.t = "json"
  /\ IsEnvelope(outcome.stdout.v)

\* C27: for any arguments of its builder, every outcome of a generated
\* script is {success: true, data} or {success: false, error: {type,
\* message, code}}; a failure never ends the script without the envelope.
C27_UniformEnvelope == pc = "returned" => EnvelopeReturned

\* the scripts whose text is JavaScript do end with an envelope
C27_EnvelopeWhenCompiled ==
  (pc = "returned" /\ Compiles(request.baked)) => EnvelopeReturned

\* a failed Apple event inside the body ended the script with the error shape
C27_CaughtInBody ==
  /\ pc = "returned"
  /\ Len(executed) > 1
  /\ ~executed[Len(executed)].ok
  /\ outcome = Printed(Caught(BridgeError))

-----------------------------------------------------------------------------
(* Claim C28 *)

\* validateNumberInput(input, fieldName, min = 1, max = 1000); the numbers
\* of the model are integers
validateNumberInput(in, fieldName, min, max) ==
  IF in.t # "number" THEN
    McpError(InvalidParams, <<fieldName, " must be an integer">>)
  ELSE IF in.v < min \/ in.v > max THEN
    McpError(InvalidParams, <<fieldName, " must be between ", "min", " and ", "max">>)
  ELSE in

\* v is what a validator returns for one of the arguments of the call
PassedValidator(v) ==
  \E k \in DOMAIN request.arguments :
    \/ v = validateStringInput(request.arguments[k], k, maxStringLength)
    \/ v = validateStringInput(request.arguments[k], k, maxNotesLength)
    \/ v = validateDateInput(request.arguments[k], k)
    \/ v = validateArrayInput(request.arguments[k], k, maxArrayLength)
    \/ v = validateNumberInput(request.arguments[k], k, 1, 1000)

\* args.days || 7, args.limit || 50 and args.tags ? ... : [] took the
\* handler's own default
Defaulted(k) == k \in NumberKeys \cup {"tags"} /\ ~Truthy(Get(request.arguments, k))

\* a value the handler took from the caller: not an absent one, not a flag
\* it coerced with Boolean(), not its own default
CallerSupplied(k, v) == v.t \notin {"undefined", "null", "boolean"} /\ ~Defaulted(k)

\* the keys of the side-channel parameters the handlers fill without the
\* mapper or a validator
RawKeys == {"project_uuid", "days"}

\* every caller-supplied value of the given side-channel parameters, and the
\* limit written into the script when asked for, is a validator's result
ValuesValidated(keys, withBaked) ==
  pc = "executing" =>
    /\ \A k \in DOMAIN locals.params \cap keys :
         CallerSupplied(k, locals.params[k]) => PassedValidator(locals.params[k])
    /\ (withBaked /\ locals.script.name = "getLogbook"
          /\ CallerSupplied("limit", locals.script.baked[1])) =>
         PassedValidator(locals.script.baked[1])

\* C28: for every operation, every caller-supplied value handed to the
\* executor, in the side-channel parameters or written into the script by
\* the builder, is the result of a validator for its kind: no argument such
\* as project_uuid, days or limit reaches the script unvalidated.
C28_OnlyValidatedValuesReachTheScript ==
  ValuesValidated(DOMAIN locals.params, TRUE)

\* the parameters the mapper or a validator filled are validators' results
C28_MappedValuesValidated ==
  ValuesValidated(DOMAIN locals.params \ RawKeys, FALSE)

-----------------------------------------------------------------------------
(* Claim C29 *)

\* a text that is non-empty, has no whitespace at either end and is within
\* the cap
CleanText(x, cap) ==
  /\ x.t = "string"
  /\ x.v # << >>
  /\ Trim(x.v) = x.v
  /\ Len(x.v) <= cap

\* the elements validateStringInput returned for the array
ElementsReturned == validated # Pending /\ ~IsThrow(validated)

\* an element of exactly the cap is accepted, one character more is rejected
CapBoundary ==
  validated # Pending =>
    /\ (input.t = "array" /\ \E i \in DOMAIN input.v : input.v[i] = Str(Letters(maxItemLength + 1)))
         => IsThrow(validated)
    /\ (input = Arr(<<Str(Letters(maxItemLength))>>)) =>
         validated = Arr(<<Str(Letters(maxItemLength))>>)

\* C29: every string validateStringInput returns, here each element of a
\* validated array, is non-empty, has no leading or trailing whitespace and
\* is at most 100 characters long; an element of exactly 100 characters is
\* accepted and one of 101 is rejected.
C29_ReturnedTextIsClean ==
  /\ ElementsReturned =>
       \A i \in DOMAIN validated.v : CleanText(validated.v[i], maxItemLength)
  /\ CapBoundary

\* the same for the arrays that hold no element of whitespace only
C29_CleanUnlessBlank ==
  /\ (ElementsReturned /\ \A i \in DOMAIN input.v : Trim(input.v[i].v) # << >>) =>
       \A i \in DOMAIN validated.v : CleanText(validated.v[i], maxItemLength)
  /\ CapBoundary

-----------------------------------------------------------------------------
(* Claim C30 *)

\* the script of an update ended with {success: true, data}
UpdateSucceeded ==
  /\ pc = "returned"
  /\ request.template \in {"updateTodo", "updateProject"}
  /\ locals.item \in DOMAIN things.items
  /\ outcome = Printed(Success(
       ReturnedData(request.template, locals.item, things.items[locals.item])))

Flag(key) == Get(request.params, key)

\* the status a successful update leaves, for the flags that say so
StatusFollowsFlags(canceledValues) ==
  (UpdateSucceeded /\ Flag("canceled") \in canceledValues) =>
    /\ Flag("canceled") = Bool(TRUE) => things.items[locals.item].status = "canceled"
    /\ (Flag("completed") = Bool(TRUE) /\ Flag("canceled") # Bool(TRUE)) =>
         things.items[locals.item].status = "completed"

\* a step changes the status of an item only for a flag that was supplied
StatusKeptWithoutFlag ==
  \A id \in DOMAIN things.items \cap DOMAIN things'.items :
    things'.items[id].status # things.items[id].status =>
      \/ pc = "completed" /\ Flag("completed") # Undefined
      \/ pc = "canceled" /\ Flag("canceled") # Undefined

\* C30: after a successful update_todo or update_project the status follows
\* the flags supplied: completed = true leaves the item completed unless
\* canceled = true is supplied, canceled = true leaves it canceled, a flag
\* that is not supplied changes nothing; {completed: true, canceled: false}
\* leaves the item completed.
C30_StatusFollowsFlags ==
  /\ [](StatusFollowsFlags({Undefined, Bool(TRUE), Bool(FALSE)}))
  /\ [][StatusKeptWithoutFlag]_vars

\* the same for the updates that do not supply canceled = false
C30_UnlessCanceledFalse ==
  /\ [](StatusFollowsFlags({Undefined, Bool(TRUE)}))
  /\ [][StatusKeptWithoutFlag]_vars

====
